---- MODULE Spec2Model ----
(***************************************************************************)
(* Model of the CassandraNet core orchestration engine                     *)
(* (core/src/platform/orchestration.rs) on top of the in-memory task store *)
(* (core/src/platform/persistence.rs).                                     *)
(*                                                                         *)
(* Every engine operation is executed by a thread and is split at the      *)
(* points where the code releases one lock and takes the next one: a store *)
(* call (one acquisition of the PlatformState lock) or one acquisition of  *)
(* an engine lock is one atomic step.  Between two steps of a thread, any  *)
(* other thread may run.                                                   *)
(***************************************************************************)
EXTENDS Integers, Sequences, FiniteSets, TLC

\* ---------------------------------------------------------------- bounds
MaxTasks == 1      \* tasks created by schedule_task
MaxOps == 4        \* engine calls and clock ticks in a behaviour
\* the workflow runtime (WfSpec)
WfMaxOps == 4         \* engine calls in a behaviour
FanMaxOps == 4        \* engine calls in a behaviour of FanSpec
\* the scheduler (SchedSpec)
SchedMaxTasks == 2    \* tasks created by schedule_task
SchedMaxOps == 5      \* engine calls and clock ticks in a behaviour
\* the Priority strategy (PrioSpec)
PrioMaxTasks == 2     \* tasks in the store the engine is built over
PrioMaxOps == 3       \* engine calls in a behaviour
\* the FairnessByKind strategy (FairSpec)
FairMaxTasks == 3     \* tasks in the store the engine is built over
FairMaxOps == 3       \* engine calls in a behaviour

\* ------------------------------------------------- program constants
DefaultMaxRetries == 3
DefaultBackoffSeconds == 30
DefaultPriority == 100

\* the threads that call into the engine; a thread leases under its own
\* worker id
Threads == {1, 2}
TaskIds == 1 .. MaxTasks
\* the task ids Uuid::new_v4() can yield in a behaviour of any of the
\* specifications below (a call on a workflow of this model enqueues at
\* most 2 tasks)
Largest(S) == CHOOSE x \in S : \A y \in S : y <= x
TaskIdSpace == 1 .. Largest({ MaxTasks, SchedMaxTasks, 2 * WfMaxOps, 2 * FanMaxOps,
                          PrioMaxTasks, FairMaxTasks })
Tenants == {"t1"}
Kinds == {"ka"}
WorkerIds == Threads
LeaseTtls == {0, 1}
ExtendBys == {1}

\* Option<T>
None == << >>
Some(x) == << x >>
Unwrap(o) == o[1]

\* ------------------------------------------------------------ policies
\* impl Default for TaskPolicy
DefaultPolicy ==
    [timeouts |-> None,
     max_retries |-> DefaultMaxRetries,
     backoff_seconds |-> Some(DefaultBackoffSeconds),
     priority |-> DefaultPriority]

\* The policies a caller registers in this model.
Policies ==
    { [timeouts |-> None, max_retries |-> 0,
       backoff_seconds |-> None, priority |-> 50],
      [timeouts |-> Some([lease_seconds |-> Some(1)]), max_retries |-> 1,
       backoff_seconds |-> Some(1), priority |-> 200] }

\* task_policies.read().get(kind).cloned().unwrap_or_default()
PolicyFor(policies, kind) ==
    IF kind \in DOMAIN policies THEN policies[kind] ELSE DefaultPolicy

\* --------------------------------------------------------- task store
\* InMemoryPersistence::list_pending_tasks: the tenant's tasks whose stored
\* status is Pending.  The order of the returned vector among equal
\* scheduled_at is the iteration order of a HashMap; select_task below
\* resolves it as a free choice.
ListPendingTasks(store, tenant) ==
    { store[i] : i \in { j \in DOMAIN store :
                           /\ store[j].tenant_id = tenant
                           /\ store[j].status = "Pending" } }

\* VecDeque::retain(|id| id != x)
Retain(q, x) == SelectSeq(q, LAMBDA y : y # x)

\* InMemoryPersistence::update_task, queue part, without the retain
UpdateTaskQueueNoRetain(q, task) ==
    IF task.status = "Pending" THEN Append(q, task.id) ELSE q
\* InMemoryPersistence::update_task, queue part
UpdateTaskQueue(q, task) ==
    IF task.status = "Pending"
    THEN Append(Retain(q, task.id), task.id)
    ELSE Retain(q, task.id)

\* InMemoryPersistence::update_task, map part: the whole record is replaced
UpdateTaskMap(store, task) == [store EXCEPT ![task.id] = task]

\* ----------------------------------------------------------- scheduler
\* mutant of Priority: a kind without a policy has priority 0
PriorityDefaultZero(policies, kind) ==
    IF kind \in DOMAIN policies THEN policies[kind].priority ELSE 0

\* select_task: policies.get(kind).map(|p| p.priority).unwrap_or(100)
Priority(policies, kind) ==
    IF kind \in DOMAIN policies THEN policies[kind].priority ELSE DefaultPriority

\* mutant of SelectTask: Fifo takes the latest scheduled_at (max_by for
\* min_by)
SelectTaskLatest(pending, strategy, policies, last) ==
    CASE strategy = "Fifo" ->
           { t \in pending : \A u \in pending : t.scheduled_at >= u.scheduled_at }
      [] strategy = "Priority" ->
           { t \in pending : \A u \in pending :
               \/ Priority(policies, t.kind) < Priority(policies, u.kind)
               \/ /\ Priority(policies, t.kind) = Priority(policies, u.kind)
                  /\ t.scheduled_at <= u.scheduled_at }
      [] strategy = "FairnessByKind" ->
           LET other == { t \in pending : Some(t.kind) # last }
           IN  IF other # {}
               THEN { t \in other : \A u \in other : t.scheduled_at <= u.scheduled_at }
               ELSE { t \in pending : \A u \in pending : t.scheduled_at <= u.scheduled_at }

\* OrchestrationEngine::select_task: the set of tasks the call may return
\* for the pending vector `pending` (empty set: the call returns None).
\* min_by returns the first minimum of the vector, and the vector's order
\* among ties is unspecified, so every minimum is a possible result.
SelectTask(pending, strategy, policies, last) ==
    CASE strategy = "Fifo" ->
           { t \in pending : \A u \in pending : t.scheduled_at <= u.scheduled_at }
      [] strategy = "Priority" ->
           { t \in pending : \A u \in pending :
               \/ Priority(policies, t.kind) < Priority(policies, u.kind)
               \/ /\ Priority(policies, t.kind) = Priority(policies, u.kind)
                  /\ t.scheduled_at <= u.scheduled_at }
      [] strategy = "FairnessByKind" ->
           LET other == { t \in pending : Some(t.kind) # last }
           IN  IF other # {}
               THEN { t \in other : \A u \in other : t.scheduled_at <= u.scheduled_at }
               ELSE { t \in pending : \A u \in pending : t.scheduled_at <= u.scheduled_at }

\* -------------------------------------------------------------- leases
\* lease_states: HashMap<TaskId, LeaseState>, kept as the set of its entries
LeaseGet(leases, task_id) == { l \in leases : l.task_id = task_id }

\* mutant of LeaseInsert: the entry of the same key is kept
LeaseInsertKeep(leases, entry) == leases \cup { entry }

\* HashMap::insert: the entry of the same key is replaced
LeaseInsert(leases, entry) ==
    { l \in leases : l.task_id # entry.task_id } \cup { entry }

\* OrchestrationEngine::clear_lease
ClearLease(leases, task_id) == { l \in leases : l.task_id # task_id }

\* start_lease: the lease window
LeaseWindow(task, lease_ttl) ==
    IF task.timeouts # None /\ Unwrap(task.timeouts).lease_seconds # None
    THEN Unwrap(Unwrap(task.timeouts).lease_seconds)
    ELSE lease_ttl

\* start_lease: the version of the new lease
NextLeaseVersion(leases, task_id) ==
    IF LeaseGet(leases, task_id) = {}
    THEN 1
    ELSE (CHOOSE l \in LeaseGet(leases, task_id) : TRUE).version + 1

\* start_lease: the LeaseState installed for the task
NewLeaseState(leases, task, worker_id, lease_ttl, token, time) ==
    [task_id |-> task.id,
     version |-> NextLeaseVersion(leases, task.id),
     token |-> token,
     worker_id |-> worker_id,
     leased_at |-> time,
     lease_expires_at |-> time + LeaseWindow(task, lease_ttl)]

\* mutant of RenewCheck: the expiry check is missing
RenewCheckNoExpiry(leases, task_id, worker_id, lease_token, time) ==
    IF LeaseGet(leases, task_id) = {} THEN "lease not found"
    ELSE LET state == CHOOSE l \in LeaseGet(leases, task_id) : TRUE
         IN  IF state.worker_id # worker_id THEN "worker mismatch"
             ELSE IF state.token # lease_token THEN "invalid lease token"
             ELSE "ok"

\* renew_task_lease: the checks before the lease is changed
RenewCheck(leases, task_id, worker_id, lease_token, time) ==
    IF LeaseGet(leases, task_id) = {} THEN "lease not found"
    ELSE LET state == CHOOSE l \in LeaseGet(leases, task_id) : TRUE
         IN  IF state.worker_id # worker_id THEN "worker mismatch"
             ELSE IF state.token # lease_token THEN "invalid lease token"
             ELSE IF state.lease_expires_at < time THEN "lease expired"
             ELSE "ok"

\* mutant of RenewedLease: the version is not incremented
RenewedLeaseSameVersion(state, extend_by) ==
    [state EXCEPT !.lease_expires_at = @ + extend_by]

\* renew_task_lease: the renewed LeaseState
RenewedLease(state, extend_by) ==
    [state EXCEPT !.version = @ + 1, !.lease_expires_at = @ + extend_by]

\* TaskLease returned by start_lease and renew_task_lease
TaskLeaseOf(state) ==
    [task_id |-> state.task_id,
     worker_id |-> state.worker_id,
     leased_at |-> state.leased_at,
     lease_expires_at |-> state.lease_expires_at,
     lease_version |-> state.version,
     lease_token |-> state.token]

\* ------------------------------------------------------ task records
\* schedule_task: the Task built for a request
NewTask(id, tenant, kind, payload, timeouts, time) ==
    [id |-> id, tenant_id |-> tenant, kind |-> kind, payload |-> payload,
     status |-> "Pending", attempts |-> 0,
     scheduled_at |-> time, started_at |-> None, completed_at |-> None,
     last_error |-> None, result |-> None,
     timeouts |-> timeouts]

\* lease_next_task: the selected task as written back
LeasedTask(task, time) ==
    [task EXCEPT !.status = "InProgress", !.started_at = Some(time)]

\* complete_task: the task as written back
CompletedTask(task, result, time) ==
    [task EXCEPT !.status = "Completed", !.completed_at = Some(time),
                 !.result = result]

\* mutant of ShouldRetry: the retry budget is one short (< for <=)
ShouldRetryStrict(attempts, retry, policy) == retry /\ attempts < policy.max_retries

\* fail_task: should_retry
ShouldRetry(attempts, retry, policy) == retry /\ attempts <= policy.max_retries

\* fail_task: the backoff added to now
Backoff(policy) ==
    IF policy.backoff_seconds # None /\ Unwrap(policy.backoff_seconds) > 0
    THEN Unwrap(policy.backoff_seconds)
    ELSE 0

\* mutant of FailedTask: a retry does not clear completed_at
FailedTaskKeepsCompletedAt(task, retry, policy, time) ==
    LET t1 == [task EXCEPT !.attempts = @ + 1, !.last_error = Some("error")]
    IN  IF ShouldRetry(t1.attempts, retry, policy)
        THEN [t1 EXCEPT !.status = "Pending", !.started_at = None,
                        !.scheduled_at = time + Backoff(policy)]
        ELSE [t1 EXCEPT !.status = "Failed", !.completed_at = Some(time)]

\* fail_task: the task as written back
FailedTask(task, retry, policy, time) ==
    LET t1 == [task EXCEPT !.attempts = @ + 1, !.last_error = Some("error")]
    IN  IF ShouldRetry(t1.attempts, retry, policy)
        THEN [t1 EXCEPT !.status = "Pending", !.started_at = None,
                        !.completed_at = None,
                        !.scheduled_at = time + Backoff(policy)]
        ELSE [t1 EXCEPT !.status = "Failed", !.completed_at = Some(time)]

\* ----------------------------------------------------------- workflows
\* A task payload is kept as what workflow_context reads from it: None for
\* the payload of a plain request, Some(context) for the payload built by
\* schedule_workflow and handle_task_outcome.
PlainPayload == None

\* json!({"workflow_id", "workflow_run_id", "step_id", "input"})
StepPayload(workflow_id, run_id, step_id, input) ==
    Some([workflow_id |-> workflow_id, workflow_run_id |-> run_id,
          step_id |-> step_id, input |-> input])

\* OrchestrationEngine::workflow_context
WorkflowContext(task) == task.payload

\* WorkflowRunState::new: step_lookup; of two steps with the same id the
\* HashMap keeps the later one
StepLookup(steps) ==
    [id \in { steps[i].id : i \in DOMAIN steps } |->
        steps[CHOOSE i \in DOMAIN steps :
                /\ steps[i].id = id
                /\ \A j \in DOMAIN steps : steps[j].id = id => j <= i]]

\* schedule_workflow: the WorkflowRun it builds
NewRun(id, tenant, workflow_id, input, time) ==
    [id |-> id, tenant_id |-> tenant, workflow_id |-> workflow_id,
     status |-> "Running", current_step |-> None,
     created_at |-> time, updated_at |-> time, started_at |-> Some(time),
     completed_at |-> None, context |-> input]

\* WorkflowRunState::new
NewRunState(run, steps) ==
    [run |-> run,
     step_lookup |-> StepLookup(steps),
     waiting_steps |-> DOMAIN StepLookup(steps),
     inflight_steps |-> {},
     completed_kinds |-> {},
     failed_kinds |-> {}]

\* mutant of DepSatisfied: a Failed dependency is looked up among the
\* completed kinds
DepSatisfiedCompletedOnly(state, dep) ==
    CASE dep.required_status = "Completed" -> dep.task_kind \in state.completed_kinds
      [] dep.required_status = "Failed" -> dep.task_kind \in state.completed_kinds
      [] OTHER -> TRUE

\* pop_ready_steps: the match on dep.required_status
DepSatisfied(state, dep) ==
    CASE dep.required_status = "Completed" -> dep.task_kind \in state.completed_kinds
      [] dep.required_status = "Failed" -> dep.task_kind \in state.failed_kinds
      [] OTHER -> TRUE

\* pop_ready_steps: ready_ids
ReadyIds(state) ==
    { id \in state.waiting_steps :
        \A dep \in state.step_lookup[id].dependencies : DepSatisfied(state, dep) }

\* pop_ready_steps: the steps returned (the order of the vector is the
\* iteration order of a HashSet: the callers below take them in any order)
ReadySteps(state) == { state.step_lookup[id] : id \in ReadyIds(state) }

\* mutant of PopReadySteps: the ready steps stay in waiting_steps
PopReadyStepsKeepWaiting(state) ==
    [state EXCEPT !.inflight_steps = @ \cup ReadyIds(state)]

\* pop_ready_steps: the state it leaves
PopReadySteps(state) ==
    [state EXCEPT !.waiting_steps = @ \ ReadyIds(state),
                  !.inflight_steps = @ \cup ReadyIds(state)]

\* mutant of FinalStatus: a finished run is always Completed
FinalStatusAlwaysCompleted(failed_kinds) == "Completed"

\* mark_step_outcome: the status of a run that finishes
FinalStatus(failed_kinds) == IF failed_kinds = {} THEN "Completed" ELSE "Failed"

\* mutant of RunIsDone: the steps in flight are not looked at
RunIsDoneWaitingOnly(state) == state.waiting_steps = {}

\* mark_step_outcome: waiting_steps.is_empty() && inflight_steps.is_empty()
RunIsDone(state) == state.waiting_steps = {} /\ state.inflight_steps = {}

\* WorkflowRunState::mark_step_outcome
MarkStepOutcome(state, step_id, success, time) ==
    LET s1 == IF step_id \in DOMAIN state.step_lookup
              THEN IF success
                   THEN [state EXCEPT !.completed_kinds =
                            @ \cup { state.step_lookup[step_id].task_kind }]
                   ELSE [state EXCEPT !.failed_kinds =
                            @ \cup { state.step_lookup[step_id].task_kind }]
              ELSE state
        s2 == [s1 EXCEPT !.inflight_steps = @ \ { step_id },
                         !.run.current_step = Some(step_id),
                         !.run.updated_at = time]
    IN  IF RunIsDone(s2)
        THEN [s2 EXCEPT !.run.completed_at = Some(time),
                        !.run.status = FinalStatus(s2.failed_kinds)]
        ELSE s2

\* handle_task_outcome: matches!(status, Completed | Failed | Cancelled)
RunTerminated(run) == run.status \in {"Completed", "Failed", "Cancelled"}

\* mutant of TenantAllowed: the tenant of the workflow is not compared
TenantAllowedAny(workflow, tenant) == TRUE

\* schedule_workflow: workflow.tenant_id != tenant_id is Forbidden
TenantAllowed(workflow, tenant) == workflow.tenant_id = tenant

\* -------------------------------------------------------------- scopes
\* cncommon::auth::Scope
Admin == << "Admin" >>
Custom(value) == << "Custom", value >>

\* Scope::as_str
ScopeAsStr(scope) ==
    CASE scope = Admin -> "admin"
      [] scope = << "TenantRead" >> -> "tenant:read"
      [] scope = << "TenantWrite" >> -> "tenant:write"
      [] scope = << "ProvisioningManage" >> -> "provisioning:manage"
      [] scope = << "OrchestrationManage" >> -> "orchestration:manage"
      [] scope = << "ApiKeyManage" >> -> "apikey:manage"
      [] scope = << "AgentExecute" >> -> "agent:execute"
      [] scope = << "WorkflowExecute" >> -> "workflow:execute"
      [] OTHER -> scope[2]

\* Scope::from_str
ScopeFromStr(value) ==
    CASE value = "admin" -> Admin
      [] value = "tenant:read" -> << "TenantRead" >>
      [] value = "tenant:write" -> << "TenantWrite" >>
      [] value = "provisioning:manage" -> << "ProvisioningManage" >>
      [] value = "orchestration:manage" -> << "OrchestrationManage" >>
      [] value = "apikey:manage" -> << "ApiKeyManage" >>
      [] value = "agent:execute" -> << "AgentExecute" >>
      [] value = "workflow:execute" -> << "WorkflowExecute" >>
      [] OTHER -> Custom(value)

\* ------------------------------------------------------------ api keys
\* the idempotency keys the callers of create_tenant_with_options use
IdempotencyKeys == {"k1", "k2"}
\* the values of the first 8 characters of a key id
PrefixSpace == {0, 1, 2}

\* create_api_key: &id.to_string()[..8]; ids that agree on their first
\* characters have the same prefix
TokenPrefix(id) == id % Cardinality(PrefixSpace)
\* create_api_key: the 32 random bytes drawn for key id, URL-safe base64
SecretOf(id) == << "secret", id >>
\* hash_secret: SHA-256, URL-safe base64
HashSecret(secret) == << "sha256", secret >>
\* create_api_key: format!("{token_prefix}.{secret_b64}")
KeyValue(prefix, secret) == [prefix |-> prefix, secret |-> secret]

\* validate_scopes
ValidateScopes(scopes) ==
    /\ scopes # << >>
    /\ Cardinality({ scopes[i] : i \in DOMAIN scopes }) = Len(scopes)

\* create_api_key: the ApiKeyRecord
NewApiKeyRecord(id, tenant_id, label, scopes, rotation_parent, time) ==
    [id |-> id, tenant_id |-> tenant_id, label |-> label, scopes |-> scopes,
     token_prefix |-> TokenPrefix(id), token_hash |-> HashSecret(SecretOf(id)),
     created_at |-> time, last_used_at |-> None, revoked |-> FALSE,
     deleted_at |-> None, rotated_from |-> rotation_parent, rotated_to |-> None]

\* create_api_key: the ApiKey returned to the caller
NewApiKey(id, tenant_id, label, scopes, rotation_parent, time) ==
    [id |-> id, value |-> KeyValue(TokenPrefix(id), SecretOf(id)),
     tenant_id |-> tenant_id, label |-> label, scopes |-> scopes,
     created_at |-> time, rotation_parent |-> rotation_parent]

\* mutant of InsertConflict: insert_api_key never refuses a record
InsertConflictNever(by_prefix, record) == FALSE

\* InMemoryPersistence::insert_api_key: the prefix is taken
InsertConflict(by_prefix, record) == record.token_prefix \in DOMAIN by_prefix

\* InMemoryPersistence::insert_api_key / update_api_key: the maps they leave
PutKeyIndex(by_prefix, record) ==
    (record.token_prefix :> record.id) @@ by_prefix
PutKeyRecord(records, record) == (record.id :> record) @@ records

\* InMemoryPersistence::get_api_key_by_prefix
GetApiKeyByPrefix(records, by_prefix, prefix) ==
    IF prefix \in DOMAIN by_prefix /\ by_prefix[prefix] \in DOMAIN records
    THEN Some(records[by_prefix[prefix]]) ELSE None

\* record.revoked || record.deleted_at.is_some()
Inactive(record) == record.revoked \/ record.deleted_at # None

\* ------------------------------------------------------------- tenants
\* TenantSettings: the token lifetimes
Settings(token_ttl, refresh_ttl) ==
    [token_ttl_seconds |-> token_ttl, refresh_token_ttl_seconds |-> refresh_ttl]
\* impl Default for TenantSettings
DefaultSettings == Settings(None, None)
NewTenant(id, name, settings, time) ==
    [id |-> id, name |-> name, created_at |-> time, settings |-> settings]

\* create_tenant_with_options: the scopes of the default key
BootstrapScopes(bootstrap_scopes) ==
    IF bootstrap_scopes = << >> THEN << Admin >> ELSE bootstrap_scopes
\* create_tenant_with_options: the scripts of the bundle
BootstrapScripts(bootstrap_scripts, tenant_id) ==
    IF bootstrap_scripts = << >>
    THEN << << "cassctl bootstrap --tenant", tenant_id >> >>
    ELSE bootstrap_scripts
\* create_tenant_with_options: the label of the default key
DefaultKeyLabel(tenant_id) == << "tenant:", tenant_id, ":default" >>

\* =============================================================== state
VARIABLES
    tasks,          \* PlatformState.tasks: task id -> Task
    task_queue,     \* PlatformState.task_queue
    lease_states,   \* OrchestrationEngine.lease_states
    task_policies,  \* OrchestrationEngine.task_policies: kind -> TaskPolicy
    scheduler,      \* OrchestrationEngine.scheduler
    last_kind,      \* OrchestrationEngine.last_kind
    now,            \* the clock read by Utc::now()
    next_token,     \* number of lease tokens drawn from Uuid::new_v4()
    ops,            \* number of engine calls and clock ticks so far
    pc,             \* per thread: the step it executes next
    arg,            \* per thread: arguments and locals of the running call
    cur,            \* per thread: the local `task` of the running call
    pend,           \* per thread: the local `pending` of lease_next_task
    lastVer,        \* history: last lease_version returned for a task (0: none)
    dispatched,     \* history: leases handed out by lease_next_task for a task
                    \*          since it last became Pending
    last_dispatch,  \* history: the kind of the task the latest update_task of
                    \*          lease_next_task made InProgress, if that call
                    \*          selected it under FairnessByKind
    finished,       \* history: complete_task or a terminal fail_task on the
                    \*          task has returned
    limits,         \* the numbers of calls a behaviour may make
    workflows,      \* PlatformState.workflows: workflow id -> Workflow
    workflow_runs,  \* OrchestrationEngine.workflow_runs: run id -> WorkflowRunState
    next_run,       \* number of run ids drawn from Uuid::new_v4()
    ended_runs,     \* history: run id -> the WorkflowRunState removed from
                    \*          workflow_runs
    outcomes,       \* history: per task, the outcomes (Completed by
                    \*          complete_task, Failed by a terminal fail_task)
                    \*          of the calls that have returned
    tenants,        \* PlatformState.tenants: tenant id -> Tenant
    api_keys,       \* PlatformState.api_keys: key id -> ApiKeyRecord
    api_keys_by_prefix, \* PlatformState.api_keys_by_prefix: prefix -> key id
    tenant_idempotency, \* ProvisioningService.tenant_idempotency:
                    \*          idempotency key -> TenantBootstrap
    next_tenant,    \* number of tenant ids drawn from Uuid::new_v4()
    next_key,       \* number of key ids drawn from Uuid::new_v4()
    frac,           \* the clock read by Utc::now(): its part below a second
    tokens,         \* the signed tokens the callers hold, each with the
                    \*          context it was first issued from
    bundles,        \* history: idempotency key -> the bundles returned for it
    made,           \* history: idempotency key -> the tenants inserted for it
    default_audience, \* AuthService.default_audience
    projects,       \* PlatformState.projects: project id -> Project
    agents,         \* PlatformState.agents: agent id -> Agent
    project_idempotency, \* ProvisioningService.project_idempotency:
                    \*          idempotency key -> ProjectBootstrap
    next_project,   \* number of project ids drawn from Uuid::new_v4()
    swept,          \* history: the agents a sweep_inactive_agents returned,
                    \*          less those a heartbeat was recorded for since
    quiet,          \* history: a sweep_inactive_agents has returned and no
                    \*          record_agent_heartbeat has been called since
    beat            \* history: per agent, the time of the latest heartbeat
                    \*          record_agent_heartbeat has returned from

vars == << tasks, task_queue, lease_states, task_policies, scheduler,
           last_kind, now, next_token, ops, pc, arg, cur, pend,
           lastVer, dispatched, finished, last_dispatch,
           limits, workflows, workflow_runs, next_run, ended_runs, outcomes,
           tenants, api_keys, api_keys_by_prefix, tenant_idempotency,
           next_tenant, next_key, frac, tokens, bundles, made,
           default_audience, projects, agents, project_idempotency,
           next_project, swept, quiet, beat >>

store == << tasks, task_queue >>
engine == << lease_states, task_policies, scheduler, last_kind >>
locals == << pc, arg, cur, pend >>
history == << lastVer, dispatched, finished, last_dispatch >>
wf == << workflows, workflow_runs, next_run, ended_runs, outcomes >>
keys == << api_keys, api_keys_by_prefix, next_key >>
\* the clock below the second and the configuration of the AuthService
service == << frac, default_audience >>
\* the projects and agents of the store, and what ProvisioningService keeps
\* about them
registry == << projects, agents, project_idempotency, next_project, swept,
              quiet, beat >>
iam == << tenants, keys, tenant_idempotency, next_tenant, service, tokens,
         bundles, made, registry >>

\* the limits of a specification
Limits(max_ops, max_tasks) == [ops |-> max_ops, tasks |-> max_tasks]

\* The services (OrchestrationEngine::new, AuthService::new,
\* ProvisioningService::new) built at time `time` over an InMemoryPersistence
\* that holds the tasks `stored`, enqueued in the order `queue`, and the
\* tenants `registered`; `audience` is None, or what with_default_audience
\* was given; the store also holds the projects `founded` and the agents
\* `enrolled`
PlatformOver(stored, queue, registered, founded, enrolled, audience, time) ==
    /\ tasks = stored
    /\ task_queue = queue
    /\ lease_states = {}
    /\ task_policies = << >>
    /\ scheduler = "Fifo"
    /\ last_kind = None
    /\ now = time
    /\ next_token = 0
    /\ ops = 0
    /\ pc = [w \in Threads |-> "idle"]
    /\ arg = [w \in Threads |-> None]
    /\ cur = [w \in Threads |-> None]
    /\ pend = [w \in Threads |-> {}]
    /\ lastVer = [t \in TaskIdSpace |-> 0]
    /\ dispatched = [t \in TaskIdSpace |-> 0]
    /\ finished = [t \in TaskIdSpace |-> FALSE]
    /\ last_dispatch = None
    /\ workflows = << >>
    /\ workflow_runs = << >>
    /\ next_run = 0
    /\ ended_runs = << >>
    /\ outcomes = [t \in TaskIdSpace |-> {}]
    /\ tenants = registered
    /\ api_keys = << >>
    /\ api_keys_by_prefix = << >>
    /\ tenant_idempotency = << >>
    /\ next_tenant = Cardinality(DOMAIN registered)
    /\ next_key = 0
    /\ frac = 0
    /\ default_audience = audience
    /\ tokens = << >>
    /\ bundles = [k \in IdempotencyKeys |-> {}]
    /\ made = [k \in IdempotencyKeys |-> {}]
    /\ projects = founded
    /\ agents = enrolled
    /\ project_idempotency = << >>
    /\ next_project = Cardinality(DOMAIN founded)
    /\ swept = {}
    /\ quiet = FALSE
    /\ beat = [a \in DOMAIN enrolled |-> None]

\* the services over a store without projects and agents
ServicesOver(stored, queue, registered, audience, time) ==
    PlatformOver(stored, queue, registered, << >>, << >>, audience, time)

\* OrchestrationEngine::new at time `time` over an InMemoryPersistence that
\* holds the tasks `stored`, enqueued in the order `queue`
EngineOver(stored, queue, time) ==
    ServicesOver(stored, queue, << >>, None, time)

\* OrchestrationEngine::new over an empty InMemoryPersistence
Constructed == EngineOver(<< >>, << >>, 0)

Init ==
    /\ Constructed
    /\ limits = Limits(MaxOps, MaxTasks)

\* the call of thread w returns
Return(w) ==
    /\ pc' = [pc EXCEPT ![w] = "idle"]
    /\ arg' = [arg EXCEPT ![w] = None]
    /\ cur' = [cur EXCEPT ![w] = None]
    /\ pend' = [pend EXCEPT ![w] = {}]

Goto(w, label) == pc' = [pc EXCEPT ![w] = label]

\* thread w enters a call of the engine
Call(w) ==
    /\ pc[w] = "idle"
    /\ ops < limits.ops
    /\ ops' = ops + 1

\* ------------------------------------------------------------- clock
Tick ==
    /\ ops < limits.ops
    /\ ops' = ops + 1
    /\ now' = now + 1
    /\ UNCHANGED << store, engine, next_token, locals, history, limits, iam, wf >>

\* ---------------------------------------------- register_task_policy
RegisterTaskPolicy(kind, policy) ==
    /\ ops < limits.ops
    /\ ops' = ops + 1
    /\ task_policies' = (kind :> policy) @@ task_policies
    /\ UNCHANGED << store, lease_states, scheduler, last_kind, now, limits, iam, wf,
                    next_token, locals, history >>

\* -------------------------------------------- set_scheduler_strategy
SetStrategyLastKind(w, strategy) ==
    /\ Call(w)
    /\ last_kind' = None
    /\ Goto(w, "strategy_write")
    /\ arg' = [arg EXCEPT ![w] = [strategy |-> strategy]]
    /\ UNCHANGED << store, lease_states, task_policies, scheduler, now, limits, iam, wf,
                    next_token, cur, pend, history >>

SetStrategyWrite(w) ==
    /\ pc[w] = "strategy_write"
    /\ scheduler' = arg[w].strategy
    /\ Return(w)
    /\ UNCHANGED << ops, store, lease_states, task_policies, last_kind, now, limits, iam, wf,
                    next_token, history >>

\* ----------------------------------------------------- schedule_task
SchedulePolicy(w, tenant, kind) ==
    /\ Call(w)
    /\ Cardinality(DOMAIN tasks)
         + Cardinality({ v \in Threads : pc[v] = "schedule_enqueue" })
         < limits.tasks
    /\ arg' = [arg EXCEPT ![w] =
                 [tenant_id |-> tenant, kind |-> kind, payload |-> PlainPayload,
                  timeouts |-> PolicyFor(task_policies, kind).timeouts]]
    /\ Goto(w, "schedule_enqueue")
    /\ UNCHANGED << store, engine, now, limits, iam, wf, next_token, cur, pend, history >>

\* InMemoryPersistence::enqueue_task of the new task; its id is fresh
ScheduleEnqueue(w) ==
    /\ pc[w] = "schedule_enqueue"
    /\ LET id == Cardinality(DOMAIN tasks) + 1
           task == NewTask(id, arg[w].tenant_id, arg[w].kind, arg[w].payload,
                           arg[w].timeouts, now)
       IN  /\ tasks' = (id :> task) @@ tasks
           /\ task_queue' = Append(task_queue, id)
    /\ Return(w)
    /\ UNCHANGED << ops, engine, now, limits, iam, wf, next_token, history >>

\* --------------------------------------------------- lease_next_task
\* lease_next_task that skips the tasks whose scheduled_at is still to come
LeaseListDue(w, tenant, lease_ttl) ==
    /\ Call(w)
    /\ pend' = [pend EXCEPT ![w] = { t \in ListPendingTasks(tasks, tenant) : t.scheduled_at <= now }]
    /\ arg' = [arg EXCEPT ![w] = [tenant_id |-> tenant, worker_id |-> w,
                                  lease_ttl |-> lease_ttl]]
    /\ Goto(w, "lease_select")
    /\ UNCHANGED << store, engine, now, limits, iam, wf, next_token, cur, history >>

\* list_pending_tasks: the snapshot of the tenant's Pending tasks
LeaseList(w, tenant, lease_ttl) ==
    /\ Call(w)
    /\ pend' = [pend EXCEPT ![w] = ListPendingTasks(tasks, tenant)]
    /\ arg' = [arg EXCEPT ![w] = [tenant_id |-> tenant, worker_id |-> w,
                                  lease_ttl |-> lease_ttl]]
    /\ Goto(w, "lease_select")
    /\ UNCHANGED << store, engine, now, limits, iam, wf, next_token, cur, history >>

\* select_task returns None (pending.is_empty()): lease_next_task returns
\* Ok(None)
LeaseNone(w) ==
    /\ pc[w] = "lease_select"
    /\ pend[w] = {}
    /\ Return(w)
    /\ UNCHANGED << ops, store, engine, now, limits, iam, wf, next_token, history >>

\* select_task reads the strategy, Fifo: the candidate is the min_by of the
\* pending vector and no other lock is taken
LeaseSelect(w) ==
    /\ pc[w] = "lease_select"
    /\ scheduler = "Fifo"
    /\ \E task \in SelectTask(pend[w], "Fifo", << >>, None) :
         cur' = [cur EXCEPT ![w] = task]
    /\ pend' = [pend EXCEPT ![w] = {}]
    /\ Goto(w, "lease_update")
    /\ UNCHANGED << ops, store, engine, now, limits, iam, wf, next_token, arg, history >>

\* select_task reads the strategy, Priority or FairnessByKind: the call
\* keeps its copy of the strategy and goes on to task_policies or last_kind
LeaseStrategy(w) ==
    /\ pc[w] = "lease_select"
    /\ pend[w] # {}
    /\ scheduler # "Fifo"
    /\ arg' = [arg EXCEPT ![w] =
                 [tenant_id |-> arg[w].tenant_id, worker_id |-> arg[w].worker_id,
                  lease_ttl |-> arg[w].lease_ttl, strategy |-> scheduler]]
    /\ Goto(w, IF scheduler = "Priority" THEN "lease_priority"
                                          ELSE "lease_fairness")
    /\ UNCHANGED << ops, store, engine, now, limits, iam, wf, next_token, cur,
                    pend, history >>

\* select_task under Priority: min_by under task_policies.read()
LeasePriority(w) ==
    /\ pc[w] = "lease_priority"
    /\ \E task \in SelectTask(pend[w], "Priority", task_policies, None) :
         cur' = [cur EXCEPT ![w] = task]
    /\ pend' = [pend EXCEPT ![w] = {}]
    /\ Goto(w, "lease_update")
    /\ UNCHANGED << ops, store, engine, now, limits, iam, wf, next_token, arg, history >>

\* select_task under FairnessByKind: last_kind.read().clone() and the scan
\* of the sorted vector
LeaseFairness(w) ==
    /\ pc[w] = "lease_fairness"
    /\ \E task \in SelectTask(pend[w], "FairnessByKind", << >>, last_kind) :
         cur' = [cur EXCEPT ![w] = task]
    /\ pend' = [pend EXCEPT ![w] = {}]
    /\ Goto(w, "lease_last_kind")
    /\ UNCHANGED << ops, store, engine, now, limits, iam, wf, next_token, arg, history >>

\* select_task under FairnessByKind: *self.last_kind.write() = Some(kind)
LeaseLastKind(w) ==
    /\ pc[w] = "lease_last_kind"
    /\ last_kind' = Some(cur[w].kind)
    /\ Goto(w, "lease_update")
    /\ UNCHANGED << ops, store, lease_states, task_policies, scheduler, now, limits, iam, wf,
                    next_token, arg, cur, pend, history >>

\* the call of thread w read the strategy FairnessByKind
FairCall(w) ==
    "strategy" \in DOMAIN arg[w] /\ arg[w].strategy = "FairnessByKind"

\* task.status = InProgress; task.started_at = now; update_task(task)
LeaseUpdate(w) ==
    /\ pc[w] = "lease_update"
    /\ LET task == LeasedTask(cur[w], now)
       IN  /\ cur' = [cur EXCEPT ![w] = task]
           /\ tasks' = UpdateTaskMap(tasks, task)
           /\ task_queue' = UpdateTaskQueue(task_queue, task)
    /\ last_dispatch' = IF FairCall(w) THEN Some(cur[w].kind) ELSE None
    /\ Goto(w, "lease_start")
    /\ UNCHANGED << ops, engine, now, limits, iam, wf, next_token, arg, pend,
                    lastVer, dispatched, finished >>

\* start_lease, and lease_next_task returns the TaskLease
LeaseStart(w) ==
    /\ pc[w] = "lease_start"
    /\ LET task == cur[w]
           state == NewLeaseState(lease_states, task, arg[w].worker_id,
                                  arg[w].lease_ttl, next_token + 1, now)
       IN  /\ lease_states' = LeaseInsert(lease_states, state)
           /\ lastVer' = [lastVer EXCEPT ![task.id] = TaskLeaseOf(state).lease_version]
           /\ dispatched' = [dispatched EXCEPT ![task.id] =
                               @ + 1]
    /\ next_token' = next_token + 1
    /\ Return(w)
    /\ UNCHANGED << ops, store, task_policies, scheduler, last_kind, now, limits, iam, wf, finished,
                    last_dispatch >>

\* -------------------------------------------------- renew_task_lease
\* one of the checks fails: the call returns InvalidInput
RenewReject(w, task_id, worker_id, lease_token, extend_by) ==
    /\ Call(w)
    /\ RenewCheck(lease_states, task_id, worker_id, lease_token, now) # "ok"
    /\ arg' = [arg EXCEPT ![w] =
                 [task_id |-> task_id, worker_id |-> worker_id,
                  lease_token |-> lease_token, extend_by |-> extend_by,
                  result |-> "InvalidInput", lease |-> None]]
    /\ Goto(w, "renew_return")
    /\ UNCHANGED << store, engine, now, limits, iam, wf, next_token, cur, pend, history >>

\* the checks pass: version += 1; lease_expires_at += extend_by
RenewAccept(w, task_id, worker_id, lease_token, extend_by) ==
    /\ Call(w)
    /\ RenewCheck(lease_states, task_id, worker_id, lease_token, now) = "ok"
    /\ LET state == CHOOSE l \in LeaseGet(lease_states, task_id) : TRUE
           renewed == RenewedLease(state, extend_by)
       IN  /\ lease_states' = LeaseInsert(lease_states, renewed)
           /\ lastVer' = [lastVer EXCEPT ![task_id] = TaskLeaseOf(renewed).lease_version]
           /\ arg' = [arg EXCEPT ![w] =
                        [task_id |-> task_id, worker_id |-> worker_id,
                         lease_token |-> lease_token, extend_by |-> extend_by,
                         result |-> "Ok", lease |-> Some(TaskLeaseOf(renewed))]]
    /\ Goto(w, "renew_return")
    /\ UNCHANGED << store, task_policies, scheduler, last_kind, now, limits, iam, wf,
                    next_token, cur, pend, dispatched, last_dispatch, finished >>

\* get_task for the returned TaskLease (tasks are never removed from the
\* store, so it is found), or the error return
RenewReturn(w) ==
    /\ pc[w] = "renew_return"
    /\ arg[w].result = "Ok" => arg[w].task_id \in DOMAIN tasks
    /\ Return(w)
    /\ UNCHANGED << ops, store, engine, now, limits, iam, wf, next_token, history >>

\* ----------------------------------------------- handle_task_outcome
\* complete_task or a terminal fail_task returns Ok(task)
OutcomeDone(w) ==
    /\ finished' = [finished EXCEPT ![cur[w].id] = TRUE]
    /\ outcomes' = [outcomes EXCEPT ![cur[w].id] = @ \cup { cur[w].status }]
    /\ Return(w)

\* handle_task_outcome up to the release of the workflow_runs lock: no
\* workflow context or no such run, return; else mark_step_outcome,
\* pop_ready_steps and the finished flag
HandleTaskOutcome(w, success) ==
    LET ctx == WorkflowContext(cur[w])
    IN  IF ctx = None \/ Unwrap(ctx).workflow_run_id \notin DOMAIN workflow_runs
        THEN /\ OutcomeDone(w)
             /\ UNCHANGED << workflow_runs, ended_runs >>
        ELSE LET run_id == Unwrap(ctx).workflow_run_id
                 marked == MarkStepOutcome(workflow_runs[run_id],
                                           Unwrap(ctx).step_id, success, now)
                 ready == ReadySteps(marked)
                 state == PopReadySteps(marked)
                 fin == RunTerminated(state.run)
             IN  /\ workflow_runs' = [workflow_runs EXCEPT ![run_id] = state]
                 /\ IF ready = {} /\ ~ fin
                    THEN OutcomeDone(w)
                    ELSE /\ arg' = [arg EXCEPT ![w] =
                                      [task_id |-> cur[w].id, success |-> success,
                                       run |-> state.run, ready |-> ready,
                                       finished |-> fin,
                                       step |-> None, timeouts |-> None]]
                         /\ Goto(w, IF ready # {} THEN "outcome_policy"
                                                   ELSE "outcome_remove")
                         /\ UNCHANGED << cur, pend, finished, outcomes >>
                 /\ UNCHANGED ended_runs

\* for step in ready_steps: schedule_task reads the policy of the kind
OutcomePolicy(w) ==
    /\ pc[w] = "outcome_policy"
    /\ \E step \in arg[w].ready :
         arg' = [arg EXCEPT ![w].step = Some(step),
                            ![w].timeouts =
                                PolicyFor(task_policies, step.task_kind).timeouts]
    /\ Goto(w, "outcome_enqueue")
    /\ UNCHANGED << ops, store, engine, now, next_token, cur, pend, history,
                    limits, iam, wf >>

\* schedule_task enqueues the task of the step; after the last step the run
\* is removed if finished, else the call returns
OutcomeEnqueue(w) ==
    /\ pc[w] = "outcome_enqueue"
    /\ LET id == Cardinality(DOMAIN tasks) + 1
           run == arg[w].run
           step == Unwrap(arg[w].step)
           task == NewTask(id, run.tenant_id, step.task_kind,
                           StepPayload(run.workflow_id, run.id, step.id, run.context),
                           arg[w].timeouts, now)
           rest == arg[w].ready \ { step }
       IN  /\ tasks' = (id :> task) @@ tasks
           /\ task_queue' = Append(task_queue, id)
           /\ IF rest = {} /\ ~ arg[w].finished
              THEN OutcomeDone(w)
              ELSE /\ arg' = [arg EXCEPT ![w].ready = rest, ![w].step = None]
                   /\ Goto(w, IF rest # {} THEN "outcome_policy"
                                            ELSE "outcome_remove")
                   /\ UNCHANGED << cur, pend, finished, outcomes >>
    /\ UNCHANGED << ops, engine, now, next_token, limits, iam, lastVer, dispatched, last_dispatch,
                    workflows, workflow_runs, next_run, ended_runs >>

\* if finished: workflow_runs.write().remove(&run.id)
OutcomeRemove(w) ==
    /\ pc[w] = "outcome_remove"
    /\ LET run_id == arg[w].run.id
       IN  /\ workflow_runs' = [r \in DOMAIN workflow_runs \ { run_id } |->
                                   workflow_runs[r]]
           /\ ended_runs' = IF run_id \in DOMAIN workflow_runs
                            THEN (run_id :> workflow_runs[run_id]) @@ ended_runs
                            ELSE ended_runs
    /\ OutcomeDone(w)
    /\ UNCHANGED << ops, store, engine, now, next_token, limits, iam, lastVer,
                    dispatched, last_dispatch, workflows, next_run >>

\* ------------------------------------------------- register_workflow
\* a single store call (insert_workflow); the workflow id is fresh
RegisterWorkflow(tenant, steps) ==
    /\ ops < limits.ops
    /\ ops' = ops + 1
    /\ steps # << >>
    /\ LET id == Cardinality(DOMAIN workflows) + 1
       IN  workflows' = (id :> [id |-> id, tenant_id |-> tenant,
                                steps |-> steps, created_at |-> now]) @@ workflows
    /\ UNCHANGED << store, engine, now, next_token, locals, history, limits, iam,
                    workflow_runs, next_run, ended_runs, outcomes >>

\* ------------------------------------------------- schedule_workflow
\* get_workflow returns None: NotFound
ScheduleWorkflowNotFound(w, workflow_id, tenant) ==
    /\ Call(w)
    /\ workflow_id \notin DOMAIN workflows
    /\ arg' = [arg EXCEPT ![w] = [workflow_id |-> workflow_id,
                                  tenant_id |-> tenant, result |-> "NotFound"]]
    /\ Goto(w, "error_return")
    /\ UNCHANGED << store, engine, now, next_token, cur, pend, history, limits, iam, wf >>

\* workflow.tenant_id != tenant_id: Forbidden
ScheduleWorkflowForbidden(w, workflow_id, tenant) ==
    /\ Call(w)
    /\ workflow_id \in DOMAIN workflows
    /\ ~ TenantAllowed(workflows[workflow_id], tenant)
    /\ arg' = [arg EXCEPT ![w] = [workflow_id |-> workflow_id,
                                  tenant_id |-> tenant, result |-> "Forbidden"]]
    /\ Goto(w, "error_return")
    /\ UNCHANGED << store, engine, now, next_token, cur, pend, history, limits, iam, wf >>

\* the workflow is read, the run and its WorkflowRunState are built in
\* locals of the call and pop_ready_steps is applied to that local state
ScheduleWorkflowGet(w, workflow_id, tenant, input) ==
    /\ Call(w)
    /\ workflow_id \in DOMAIN workflows
    /\ TenantAllowed(workflows[workflow_id], tenant)
    /\ LET workflow == workflows[workflow_id]
           run == NewRun(next_run + 1, tenant, workflow.id, input, now)
           state == NewRunState(run, workflow.steps)
       IN  /\ arg' = [arg EXCEPT ![w] =
                        [workflow_id |-> workflow_id, tenant_id |-> tenant,
                         input |-> input, run |-> run,
                         state |-> PopReadySteps(state),
                         ready |-> ReadySteps(state), scheduled |-> 0,
                         step |-> None, timeouts |-> None]]
           /\ Goto(w, IF ReadySteps(state) # {} THEN "wf_policy" ELSE "wf_insert")
    /\ next_run' = next_run + 1
    /\ UNCHANGED << store, engine, now, next_token, cur, pend, history, limits, iam,
                    workflows, workflow_runs, ended_runs, outcomes >>

\* for step in ready_steps: schedule_task reads the policy of the kind
WorkflowPolicy(w) ==
    /\ pc[w] = "wf_policy"
    /\ \E step \in arg[w].ready :
         arg' = [arg EXCEPT ![w].step = Some(step),
                            ![w].timeouts =
                                PolicyFor(task_policies, step.task_kind).timeouts]
    /\ Goto(w, "wf_enqueue")
    /\ UNCHANGED << ops, store, engine, now, next_token, cur, pend, history,
                    limits, iam, wf >>

\* schedule_task enqueues the task of the step; scheduled.push(task)
WorkflowEnqueue(w) ==
    /\ pc[w] = "wf_enqueue"
    /\ LET id == Cardinality(DOMAIN tasks) + 1
           step == Unwrap(arg[w].step)
           task == NewTask(id, arg[w].tenant_id, step.task_kind,
                           StepPayload(arg[w].workflow_id, arg[w].run.id, step.id,
                                       arg[w].input),
                           arg[w].timeouts, now)
           rest == arg[w].ready \ { step }
       IN  /\ tasks' = (id :> task) @@ tasks
           /\ task_queue' = Append(task_queue, id)
           /\ arg' = [arg EXCEPT ![w].ready = rest, ![w].step = None,
                                  ![w].scheduled = @ + 1]
           /\ Goto(w, IF rest # {} THEN "wf_policy" ELSE "wf_insert")
    /\ UNCHANGED << ops, engine, now, next_token, cur, pend, history, limits, iam, wf >>

\* if scheduled.is_empty() the run is Pending; state.run = run;
\* workflow_runs.write().insert(run.id, state)
WorkflowInsert(w) ==
    /\ pc[w] = "wf_insert"
    /\ LET run == [arg[w].run EXCEPT !.status =
                      IF arg[w].scheduled = 0 THEN "Pending" ELSE @]
           state == [arg[w].state EXCEPT !.run = run]
       IN  workflow_runs' = (run.id :> state) @@ workflow_runs
    /\ Return(w)
    /\ UNCHANGED << ops, store, engine, now, next_token, history, limits, iam,
                    workflows, next_run, ended_runs, outcomes >>

\* -------------------------------------------------- get_workflow_run
GetWorkflowRun(w, run_id) ==
    /\ Call(w)
    /\ arg' = [arg EXCEPT ![w] =
                 [run_id |-> run_id,
                  result |-> IF run_id \in DOMAIN workflow_runs
                             THEN Some(workflow_runs[run_id].run)
                             ELSE None]]
    /\ Goto(w, "get_run_return")
    /\ UNCHANGED << store, engine, now, next_token, cur, pend, history, limits, iam, wf >>

GetRunReturn(w) ==
    /\ pc[w] = "get_run_return"
    /\ Return(w)
    /\ UNCHANGED << ops, store, engine, now, next_token, history, limits, iam, wf >>

\* ----------------------------------------------------- complete_task
\* get_task fails: NotFound
CompleteNotFound(w, task_id) ==
    /\ Call(w)
    /\ task_id \notin DOMAIN tasks
    /\ arg' = [arg EXCEPT ![w] = [task_id |-> task_id, result |-> "NotFound"]]
    /\ Goto(w, "error_return")
    /\ UNCHANGED << store, engine, now, limits, iam, wf, next_token, cur, pend, history >>

CompleteGet(w, task_id, result) ==
    /\ Call(w)
    /\ task_id \in DOMAIN tasks
    /\ cur' = [cur EXCEPT ![w] = tasks[task_id]]
    /\ arg' = [arg EXCEPT ![w] = [task_id |-> task_id, result |-> result]]
    /\ Goto(w, "complete_update")
    /\ UNCHANGED << store, engine, now, limits, iam, wf, next_token, pend, history >>

CompleteUpdate(w) ==
    /\ pc[w] = "complete_update"
    /\ LET task == CompletedTask(cur[w], arg[w].result, now)
       IN  /\ cur' = [cur EXCEPT ![w] = task]
           /\ tasks' = UpdateTaskMap(tasks, task)
           /\ task_queue' = UpdateTaskQueue(task_queue, task)
    /\ Goto(w, "complete_clear")
    /\ UNCHANGED << ops, engine, now, limits, iam, wf, next_token, arg, pend, history >>

CompleteClear(w) ==
    /\ pc[w] = "complete_clear"
    /\ lease_states' = ClearLease(lease_states, arg[w].task_id)
    /\ Goto(w, "complete_outcome")
    /\ UNCHANGED << ops, store, task_policies, scheduler, last_kind, now, limits, iam, wf,
                    next_token, arg, cur, pend, history >>

\* handle_task_outcome(&task, true)
CompleteOutcome(w) ==
    /\ pc[w] = "complete_outcome"
    /\ HandleTaskOutcome(w, TRUE)
    /\ UNCHANGED << ops, store, engine, now, next_token, limits, iam, lastVer,
                    dispatched, last_dispatch, workflows, next_run >>

\* the error return of complete_task and fail_task
ErrorReturn(w) ==
    /\ pc[w] = "error_return"
    /\ Return(w)
    /\ UNCHANGED << ops, store, engine, now, limits, iam, wf, next_token, history >>

\* --------------------------------------------------------- fail_task
FailNotFound(w, task_id) ==
    /\ Call(w)
    /\ task_id \notin DOMAIN tasks
    /\ arg' = [arg EXCEPT ![w] = [task_id |-> task_id, result |-> "NotFound"]]
    /\ Goto(w, "error_return")
    /\ UNCHANGED << store, engine, now, limits, iam, wf, next_token, cur, pend, history >>

FailGet(w, task_id, retry) ==
    /\ Call(w)
    /\ task_id \in DOMAIN tasks
    /\ cur' = [cur EXCEPT ![w] = tasks[task_id]]
    /\ arg' = [arg EXCEPT ![w] = [task_id |-> task_id, retry |-> retry]]
    /\ Goto(w, "fail_policy")
    /\ UNCHANGED << store, engine, now, limits, iam, wf, next_token, pend, history >>

\* task_policies.read().get(&task.kind).cloned().unwrap_or_default()
FailPolicy(w) ==
    /\ pc[w] = "fail_policy"
    /\ arg' = [arg EXCEPT ![w] =
                 [task_id |-> arg[w].task_id, retry |-> arg[w].retry,
                  policy |-> PolicyFor(task_policies, cur[w].kind)]]
    /\ Goto(w, "fail_update")
    /\ UNCHANGED << ops, store, engine, now, limits, iam, wf, next_token, cur, pend, history >>

FailUpdate(w) ==
    /\ pc[w] = "fail_update"
    /\ LET task == FailedTask(cur[w], arg[w].retry, arg[w].policy, now)
       IN  /\ cur' = [cur EXCEPT ![w] = task]
           /\ tasks' = UpdateTaskMap(tasks, task)
           /\ task_queue' = UpdateTaskQueue(task_queue, task)
           /\ dispatched' = [dispatched EXCEPT ![task.id] =
                               IF task.status = "Pending" THEN 0 ELSE @]
    /\ Goto(w, "fail_clear")
    /\ UNCHANGED << ops, engine, now, limits, iam, wf, next_token, arg, pend, lastVer, finished,
                    last_dispatch >>

\* clear_lease; with should_retry the call returns here
FailClear(w) ==
    /\ pc[w] = "fail_clear"
    /\ lease_states' = ClearLease(lease_states, arg[w].task_id)
    /\ IF cur[w].status = "Pending"
       THEN Return(w)
       ELSE Goto(w, "fail_outcome") /\ UNCHANGED << ops, arg, cur, pend >>
    /\ UNCHANGED << ops, store, task_policies, scheduler, last_kind, now, limits, iam, wf,
                    next_token, history >>

\* handle_task_outcome(&task, false)
FailOutcome(w) ==
    /\ pc[w] = "fail_outcome"
    /\ HandleTaskOutcome(w, FALSE)
    /\ UNCHANGED << ops, store, engine, now, next_token, limits, iam, lastVer,
                    dispatched, last_dispatch, workflows, next_run >>

\* ================================================================ next
Next ==
    \/ Tick
    \/ \E kind \in Kinds, policy \in Policies : RegisterTaskPolicy(kind, policy)
    \/ \E w \in Threads, tenant \in Tenants, kind \in Kinds :
         SchedulePolicy(w, tenant, kind)
    \/ \E w \in Threads : ScheduleEnqueue(w)
    \/ \E w \in Threads, tenant \in Tenants, ttl \in LeaseTtls :
         LeaseList(w, tenant, ttl)
    \/ \E w \in Threads : LeaseNone(w)
    \/ \E w \in Threads : LeaseSelect(w)
    \/ \E w \in Threads : LeaseUpdate(w)
    \/ \E w \in Threads : LeaseStart(w)
    \/ \E w \in Threads, t \in TaskIds, wk \in WorkerIds,
          tok \in 1 .. next_token + 1, e \in ExtendBys :
         \/ RenewReject(w, t, wk, tok, e)
         \/ RenewAccept(w, t, wk, tok, e)
    \/ \E w \in Threads : RenewReturn(w)
    \/ \E w \in Threads, t \in TaskIds, r \in {Some("ok")} :
         \/ CompleteNotFound(w, t)
         \/ CompleteGet(w, t, r)
    \/ \E w \in Threads : CompleteUpdate(w)
    \/ \E w \in Threads : CompleteClear(w)
    \/ \E w \in Threads : CompleteOutcome(w)
    \/ \E w \in Threads : ErrorReturn(w)
    \/ \E w \in Threads, t \in TaskIds, retry \in BOOLEAN :
         \/ FailNotFound(w, t)
         \/ FailGet(w, t, retry)
    \/ \E w \in Threads : FailPolicy(w)
    \/ \E w \in Threads : FailUpdate(w)
    \/ \E w \in Threads : FailClear(w)
    \/ \E w \in Threads : FailOutcome(w)

Spec == Init /\ [][Next]_vars

\* ================================================== the workflow runtime
\* The callers of this specification register workflows for tenant t1 and
\* run them: schedule_workflow, then lease_next_task, complete_task and
\* fail_task on the tasks of the steps, and get_workflow_run.
WfTenants == {"t1", "t2"}
WfOwners == {"t1"}
WfInputs == {"in"}

Dep(kind, status) == [task_kind |-> kind, required_status |-> status]
Step(id, kind, deps) ==
    [id |-> id, name |-> id, task_kind |-> kind, dependencies |-> deps]

\* tests::workflow_failure_triggers_compensation: B compensates a failed A
Compensation ==
    << Step("A", "ka", {}), Step("B", "kb", { Dep("ka", "Failed") }) >>

\* two steps of kind ka, one of them behind a Pending dependency, and a
\* step that waits for a completed ka
FanIn ==
    << Step("A", "ka", {}), Step("B", "ka", { Dep("kb", "Pending") }),
       Step("C", "kb", { Dep("ka", "Completed") }) >>

\* tests::workflow_schedule_and_completion: one step
Single == << Step("A", "ka", {}) >>

\* no step is ready when the run starts
Blocked == << Step("A", "ka", { Dep("kb", "Completed") }) >>

WorkflowShapes == { Compensation, Single, Blocked }

WfInit ==
    /\ Constructed
    /\ limits = Limits(WfMaxOps, 0)

\* the thread that runs the next call: the threads are interchangeable, so
\* a call is given to the first idle one
Caller ==
    { w \in Threads : pc[w] = "idle" /\ \A v \in Threads : v < w => pc[v] # "idle" }

WfNext ==
    \/ \E tenant \in WfOwners, steps \in WorkflowShapes :
         RegisterWorkflow(tenant, steps)
    \/ \E w \in Caller, id \in 1 .. Cardinality(DOMAIN workflows) + 1,
          tenant \in WfTenants :
         \/ ScheduleWorkflowNotFound(w, id, tenant)
         \/ ScheduleWorkflowForbidden(w, id, tenant)
         \/ \E input \in WfInputs : ScheduleWorkflowGet(w, id, tenant, input)
    \/ \E w \in Threads : WorkflowPolicy(w)
    \/ \E w \in Threads : WorkflowEnqueue(w)
    \/ \E w \in Threads : WorkflowInsert(w)
    \/ \E w \in Caller, run_id \in 1 .. next_run : GetWorkflowRun(w, run_id)
    \/ \E w \in Threads : GetRunReturn(w)
    \/ \E w \in Caller, tenant \in WfOwners : LeaseList(w, tenant, 1)
    \/ \E w \in Threads : LeaseNone(w)
    \/ \E w \in Threads : LeaseSelect(w)
    \/ \E w \in Threads : LeaseUpdate(w)
    \/ \E w \in Threads : LeaseStart(w)
    \/ \E w \in Caller, t \in DOMAIN tasks : CompleteGet(w, t, None)
    \/ \E w \in Threads : CompleteUpdate(w)
    \/ \E w \in Threads : CompleteClear(w)
    \/ \E w \in Threads : CompleteOutcome(w)
    \/ \E w \in Threads : ErrorReturn(w)
    \/ \E w \in Caller, t \in DOMAIN tasks, retry \in BOOLEAN :
         FailGet(w, t, retry)
    \/ \E w \in Threads : FailPolicy(w)
    \/ \E w \in Threads : FailUpdate(w)
    \/ \E w \in Threads : FailClear(w)
    \/ \E w \in Threads : FailOutcome(w)
    \/ \E w \in Threads : OutcomePolicy(w)
    \/ \E w \in Threads : OutcomeEnqueue(w)
    \/ \E w \in Threads : OutcomeRemove(w)

WfSpec == WfInit /\ [][WfNext]_vars

\* a step of a call that thread w is running: every step but the first
\* only takes a lock that its holders release, so a call that has begun
\* runs to its return
WfCallStep(w) ==
    \/ WorkflowPolicy(w) \/ WorkflowEnqueue(w) \/ WorkflowInsert(w)
    \/ GetRunReturn(w)
    \/ LeaseNone(w) \/ LeaseSelect(w) \/ LeaseUpdate(w) \/ LeaseStart(w)
    \/ CompleteUpdate(w) \/ CompleteClear(w) \/ CompleteOutcome(w)
    \/ ErrorReturn(w)
    \/ FailPolicy(w) \/ FailUpdate(w) \/ FailClear(w) \/ FailOutcome(w)
    \/ OutcomePolicy(w) \/ OutcomeEnqueue(w) \/ OutcomeRemove(w)

WfLive == WfSpec /\ \A w \in Threads : WF_vars(WfCallStep(w))

\* ------------------------------------------------- parallel steps
\* Outcome calls racing on runs with steps in flight side by side: the
\* callers register workflows, schedule runs of them and report outcomes
\* (complete_task, terminal fail_task) of the runs' tasks.
FanShapes == { FanIn, Compensation }

FanInit ==
    /\ Constructed
    /\ limits = Limits(FanMaxOps, 0)

FanNext ==
    \/ \E tenant \in WfOwners, steps \in FanShapes :
         RegisterWorkflow(tenant, steps)
    \/ \E w \in Caller, id \in DOMAIN workflows, tenant \in WfOwners,
          input \in WfInputs :
         ScheduleWorkflowGet(w, id, tenant, input)
    \/ \E w \in Threads : WorkflowPolicy(w)
    \/ \E w \in Threads : WorkflowEnqueue(w)
    \/ \E w \in Threads : WorkflowInsert(w)
    \/ \E w \in Caller, t \in DOMAIN tasks : CompleteGet(w, t, None)
    \/ \E w \in Threads : CompleteUpdate(w)
    \/ \E w \in Threads : CompleteClear(w)
    \/ \E w \in Threads : CompleteOutcome(w)
    \/ \E w \in Caller, t \in DOMAIN tasks : FailGet(w, t, FALSE)
    \/ \E w \in Threads : FailPolicy(w)
    \/ \E w \in Threads : FailUpdate(w)
    \/ \E w \in Threads : FailClear(w)
    \/ \E w \in Threads : FailOutcome(w)
    \/ \E w \in Threads : OutcomePolicy(w)
    \/ \E w \in Threads : OutcomeEnqueue(w)
    \/ \E w \in Threads : OutcomeRemove(w)

FanSpec == FanInit /\ [][FanNext]_vars

\* ========================================================= the scheduler
\* The callers of this specification schedule tasks of two kinds for two
\* tenants, lease them and fail them, while the clock advances.
SchedTenants == {"t1", "t2"}
SchedKinds == {"ka", "kb"}

SchedInit ==
    /\ Constructed
    /\ limits = Limits(SchedMaxOps, SchedMaxTasks)

SchedNext ==
    \/ Tick
    \/ \E w \in Caller, tenant \in SchedTenants, kind \in SchedKinds :
         SchedulePolicy(w, tenant, kind)
    \/ \E w \in Threads : ScheduleEnqueue(w)
    \/ \E w \in Caller, tenant \in SchedTenants : LeaseList(w, tenant, 1)
    \/ \E w \in Threads : LeaseNone(w)
    \/ \E w \in Threads : LeaseSelect(w)
    \/ \E w \in Threads : LeaseUpdate(w)
    \/ \E w \in Threads : LeaseStart(w)
    \/ \E w \in Caller, t \in DOMAIN tasks : FailGet(w, t, TRUE)
    \/ \E w \in Threads : FailPolicy(w)
    \/ \E w \in Threads : FailUpdate(w)
    \/ \E w \in Threads : FailClear(w)

SchedSpec == SchedInit /\ [][SchedNext]_vars

\* ------------------------------------------------- stores with tasks
\* The stores an engine can be built over: OrchestrationEngine::new takes
\* the TaskStore from its caller, and the store may hold tasks that earlier
\* schedule_task calls enqueued.  Task i was enqueued at time times[i]; ids
\* follow the order of the calls, so the times do not decrease.
Monotone(f) == \A i, j \in DOMAIN f : i <= j => f[i].time <= f[j].time
Enqueued(n, owners, kinds) ==
    { f \in [1 .. n -> [tenant : owners, kind : kinds, time : 0 .. n - 1]] :
        Monotone(f) }
StoredTasks(f) ==
    [i \in DOMAIN f |->
        NewTask(i, f[i].tenant, f[i].kind, PlainPayload, None, f[i].time)]
StoredQueue(f) == [i \in DOMAIN f |-> i]
LastTime(f) == Largest({0} \cup { f[i].time : i \in DOMAIN f })

\* ------------------------------------------------- Priority strategy
\* The engine is built over a store that holds Pending tasks of one tenant;
\* the callers switch the engine to Priority, register policies and lease.
PrioInit ==
    /\ \E n \in 1 .. PrioMaxTasks : \E f \in Enqueued(n, Tenants, SchedKinds) :
         EngineOver(StoredTasks(f), StoredQueue(f), LastTime(f))
    /\ limits = Limits(PrioMaxOps, PrioMaxTasks)

PrioNext ==
    \/ \E kind \in SchedKinds, policy \in Policies :
         RegisterTaskPolicy(kind, policy)
    \/ \E w \in Caller : SetStrategyLastKind(w, "Priority")
    \/ \E w \in Threads : SetStrategyWrite(w)
    \/ \E w \in Caller, tenant \in Tenants : LeaseList(w, tenant, 1)
    \/ \E w \in Threads : LeaseNone(w)
    \/ \E w \in Threads : LeaseSelect(w)
    \/ \E w \in Threads : LeaseStrategy(w)
    \/ \E w \in Threads : LeasePriority(w)
    \/ \E w \in Threads : LeaseUpdate(w)
    \/ \E w \in Threads : LeaseStart(w)

PrioSpec == PrioInit /\ [][PrioNext]_vars

\* ------------------------------------------- FairnessByKind strategy
\* The engine is built over a store that holds Pending tasks of two tenants;
\* the callers switch the engine to FairnessByKind and lease.
FairInit ==
    /\ \E n \in 1 .. FairMaxTasks : \E f \in Enqueued(n, SchedTenants, SchedKinds) :
         EngineOver(StoredTasks(f), StoredQueue(f), LastTime(f))
    /\ limits = Limits(FairMaxOps, FairMaxTasks)

FairNext ==
    \/ \E w \in Caller : SetStrategyLastKind(w, "FairnessByKind")
    \/ \E w \in Threads : SetStrategyWrite(w)
    \/ \E w \in Caller, tenant \in SchedTenants : LeaseList(w, tenant, 1)
    \/ \E w \in Threads : LeaseNone(w)
    \/ \E w \in Threads : LeaseSelect(w)
    \/ \E w \in Threads : LeaseStrategy(w)
    \/ \E w \in Threads : LeaseFairness(w)
    \/ \E w \in Threads : LeaseLastKind(w)
    \/ \E w \in Threads : LeaseUpdate(w)
    \/ \E w \in Threads : LeaseStart(w)

FairSpec == FairInit /\ [][FairNext]_vars

\* =========================================================== provisioning
\* what an operation of the auth and provisioning services leaves alone in
\* the orchestration engine
orch == << store, engine, next_token, limits, wf, history >>

\* the resolution of the clock below the second
TicksPerSecond == 2
\* Duration::seconds(n), Duration::minutes(n), Duration::hours(n)
Seconds(n) == n * TicksPerSecond
Minutes(n) == Seconds(60 * n)
Hours(n) == Minutes(60 * n)
\* Utc::now()
UtcNow == now * TicksPerSecond + frac

ProvMaxOps == 3

\* the requests the callers of create_tenant_with_options send
TenantNames == {"acme", ""}
BootstrapScopeLists == { << >>, << Admin >>, << Admin, Admin >> }
TenantCreateRequests ==
    [name : TenantNames, idempotency_key : { Some(k) : k \in IdempotencyKeys },
     settings : {None}, bootstrap_scopes : BootstrapScopeLists,
     bootstrap_scripts : { << >> }]

\* self.tenant_idempotency.read().get(key)
Cached(request) ==
    /\ request.idempotency_key # None
    /\ request.idempotency_key[1] \in DOMAIN tenant_idempotency

\* the bundle is returned to the caller
Returned(request, bundle) ==
    IF request.idempotency_key = None THEN bundles
    ELSE [bundles EXCEPT ![request.idempotency_key[1]] = @ \cup {bundle}]

\* ---------------------------------------- create_tenant_with_options
\* a request whose key is in the idempotency map: the stored bundle
CreateTenantCached(w, request) ==
    /\ Call(w)
    /\ Cached(request)
    /\ bundles' = Returned(request, tenant_idempotency[request.idempotency_key[1]])
    /\ UNCHANGED << orch, registry, now, locals, tenants, keys, tenant_idempotency,
                    next_tenant, service, tokens, made >>

CreateTenantInvalid(w, request) ==
    /\ Call(w)
    /\ ~Cached(request)
    /\ request.name = ""
    /\ arg' = [arg EXCEPT ![w] = [request |-> request, result |-> "InvalidInput"]]
    /\ Goto(w, "error_return")
    /\ UNCHANGED << orch, registry, now, cur, pend, iam >>

CreateTenantMiss(w, request) ==
    /\ Call(w)
    /\ ~Cached(request)
    /\ request.name # ""
    /\ arg' = [arg EXCEPT ![w] = [request |-> request]]
    /\ Goto(w, "tenant_insert")
    /\ UNCHANGED << orch, registry, now, cur, pend, iam >>

\* Tenant { id: Uuid::new_v4(), .. }; self.tenants.insert_tenant(tenant)
CreateTenantInsert(w) ==
    /\ pc[w] = "tenant_insert"
    /\ LET request == arg[w].request
           settings == IF request.settings = None THEN DefaultSettings
                       ELSE request.settings[1]
           tenant == NewTenant(next_tenant + 1, request.name, settings, UtcNow)
       IN  /\ next_tenant' = next_tenant + 1
           /\ tenants' = (tenant.id :> tenant) @@ tenants
           /\ cur' = [cur EXCEPT ![w] = tenant]
           /\ made' = IF request.idempotency_key = None THEN made
                      ELSE [made EXCEPT ![request.idempotency_key[1]] =
                                @ \cup {tenant.id}]
    /\ Goto(w, "tenant_key")
    /\ UNCHANGED << ops, orch, registry, now, arg, pend, keys, tenant_idempotency, service,
                    tokens, bundles >>

\* self.auth.issue_api_key(tenant.id, "tenant:{id}:default", scopes)?
\* The id drawn for the key is new; its first characters are `prefix`.
CreateTenantIssue(w, prefix) ==
    /\ pc[w] = "tenant_key"
    /\ LET tenant == cur[w]
           scopes == BootstrapScopes(arg[w].request.bootstrap_scopes)
           id == next_key * Cardinality(PrefixSpace) + prefix
           record == NewApiKeyRecord(id, tenant.id, DefaultKeyLabel(tenant.id),
                                     scopes, None, UtcNow)
           key == NewApiKey(id, tenant.id, DefaultKeyLabel(tenant.id),
                            scopes, None, UtcNow)
       IN  IF ~ValidateScopes(scopes)
           THEN /\ arg' = [arg EXCEPT ![w] = [request |-> arg[w].request,
                                              result |-> "InvalidInput"]]
                /\ Goto(w, "error_return")
                /\ UNCHANGED << cur, keys >>
           ELSE IF InsertConflict(api_keys_by_prefix, record)
           THEN /\ arg' = [arg EXCEPT ![w] = [request |-> arg[w].request,
                                              result |-> "Conflict"]]
                /\ Goto(w, "error_return")
                /\ next_key' = next_key + 1
                /\ UNCHANGED << cur, api_keys, api_keys_by_prefix >>
           ELSE /\ api_keys' = PutKeyRecord(api_keys, record)
                /\ api_keys_by_prefix' = PutKeyIndex(api_keys_by_prefix, record)
                /\ next_key' = next_key + 1
                /\ cur' = [cur EXCEPT ![w] =
                             [tenant |-> tenant, default_api_key |-> Some(key),
                              bootstrap_scripts |->
                                  BootstrapScripts(arg[w].request.bootstrap_scripts,
                                                   tenant.id)]]
                /\ Goto(w, "tenant_idempotency")
                /\ UNCHANGED arg
    /\ UNCHANGED << ops, orch, registry, now, pend, tenants, tenant_idempotency,
                    next_tenant, service, tokens, bundles, made >>

\* self.tenant_idempotency.write().insert(key, bundle); Ok(bundle)
CreateTenantReturn(w) ==
    /\ pc[w] = "tenant_idempotency"
    /\ LET request == arg[w].request
       IN  /\ tenant_idempotency' =
                IF request.idempotency_key = None THEN tenant_idempotency
                ELSE (request.idempotency_key[1] :> cur[w]) @@ tenant_idempotency
           /\ bundles' = Returned(request, cur[w])
    /\ Return(w)
    /\ UNCHANGED << ops, orch, registry, now, tenants, keys, next_tenant, service, tokens,
                    made >>

ProvInit ==
    /\ Constructed
    /\ limits = Limits(ProvMaxOps, 0)

ProvNext ==
    \/ \E w \in Caller, request \in TenantCreateRequests :
         CreateTenantCached(w, request)
    \/ \E w \in Caller, request \in TenantCreateRequests :
         CreateTenantInvalid(w, request)
    \/ \E w \in Caller, request \in TenantCreateRequests :
         CreateTenantMiss(w, request)
    \/ \E w \in Threads : CreateTenantInsert(w)
    \/ \E w \in Threads, prefix \in PrefixSpace : CreateTenantIssue(w, prefix)
    \/ \E w \in Threads : CreateTenantReturn(w)
    \/ \E w \in Threads : ErrorReturn(w)

ProvSpec == ProvInit /\ [][ProvNext]_vars

\* ================================================================ api keys
KeyMaxOps == 3

\* AuthService::new: the defaults of the service
DefaultTtl == Minutes(60)
DefaultRefreshTtl == Hours(12)
Issuer == "cassantranet"

\* a key id that no record carries
UnknownKey == -1
\* the key ids the callers pass
KeyIds == DOMAIN api_keys \cup {UnknownKey}
\* the tenant of the store the services are built over
Acme(settings) == NewTenant(1, "acme", settings, 0)
\* the scope lists the callers of issue_api_key pass
IssueScopeLists == { << >>, << Admin >> }
\* a secret that no key was created with
WrongSecret == << "secret", UnknownKey >>
\* a string that parse_api_key rejects: it has no dot
Malformed == [whole |-> "malformed"]
\* the strings the callers of authenticate_api_key present
PresentedKeys ==
    { KeyValue(prefix, secret) :
        prefix \in PrefixSpace,
        secret \in { SecretOf(id) : id \in DOMAIN api_keys } \cup {WrongSecret} }
      \cup {Malformed}

\* the id a create_api_key call draws: it is new, and its first characters
\* are `prefix`
NewKeyId(prefix) == next_key * Cardinality(PrefixSpace) + prefix

\* an operation of the auth service ends with an error
Fails(w, call, input, error) ==
    /\ arg' = [arg EXCEPT ![w] = [call |-> call, input |-> input,
                                  result |-> error]]
    /\ Goto(w, "error_return")
\* an operation of the auth service ends with Ok(value)
Succeeds(w, call, input, value) ==
    /\ arg' = [arg EXCEPT ![w] = [call |-> call, input |-> input,
                                  result |-> "Ok", value |-> value]]
    /\ Goto(w, "auth_return")

\* the Ok return of an operation of the auth service
AuthReturn(w) ==
    /\ pc[w] = "auth_return"
    /\ Return(w)
    /\ UNCHANGED << ops, orch, registry, now, iam >>

\* ------------------------------------------------------ issue_api_key
IssueApiKey(w, tenant_id, label, scopes, prefix) ==
    /\ Call(w)
    /\ LET id == NewKeyId(prefix)
           record == NewApiKeyRecord(id, tenant_id, label, scopes, None, UtcNow)
       IN  IF ~ValidateScopes(scopes)
           THEN Fails(w, "issue_api_key", scopes, "InvalidInput") /\ UNCHANGED keys
           ELSE IF InsertConflict(api_keys_by_prefix, record)
           THEN /\ Fails(w, "issue_api_key", scopes, "Conflict")
                /\ next_key' = next_key + 1
                /\ UNCHANGED << api_keys, api_keys_by_prefix >>
           ELSE /\ api_keys' = PutKeyRecord(api_keys, record)
                /\ api_keys_by_prefix' = PutKeyIndex(api_keys_by_prefix, record)
                /\ next_key' = next_key + 1
                /\ Succeeds(w, "issue_api_key", scopes,
                         NewApiKey(id, tenant_id, label, scopes, None,
                                         UtcNow))
    /\ UNCHANGED << orch, registry, now, cur, pend, tenants, tenant_idempotency,
                    next_tenant, service, tokens, bundles, made >>

\* ----------------------------------------------------- rotate_api_key
RotateNotFound(w, id) ==
    /\ Call(w)
    /\ id \notin DOMAIN api_keys
    /\ Fails(w, "rotate_api_key", id, "NotFound")
    /\ UNCHANGED << orch, registry, now, cur, pend, iam >>

RotateInactive(w, id) ==
    /\ Call(w)
    /\ id \in DOMAIN api_keys
    /\ Inactive(api_keys[id])
    /\ Fails(w, "rotate_api_key", id, "InvalidInput")
    /\ UNCHANGED << orch, registry, now, cur, pend, iam >>

RotateGet(w, id) ==
    /\ Call(w)
    /\ id \in DOMAIN api_keys
    /\ ~Inactive(api_keys[id])
    /\ cur' = [cur EXCEPT ![w] = api_keys[id]]
    /\ arg' = [arg EXCEPT ![w] = [call |-> "rotate_api_key", input |-> id]]
    /\ Goto(w, "rotate_create")
    /\ UNCHANGED << orch, registry, now, pend, iam >>

\* self.create_api_key(existing.tenant_id, existing.label, existing.scopes,
\*                     Some(existing.id))?
RotateCreate(w, prefix) ==
    /\ pc[w] = "rotate_create"
    /\ LET existing == cur[w]
           id == NewKeyId(prefix)
           record == NewApiKeyRecord(id, existing.tenant_id, existing.label,
                                     existing.scopes, Some(existing.id), UtcNow)
       IN  IF InsertConflict(api_keys_by_prefix, record)
           THEN /\ Fails(w, "rotate_api_key", existing.id, "Conflict")
                /\ UNCHANGED << api_keys, api_keys_by_prefix >>
           ELSE /\ api_keys' = PutKeyRecord(api_keys, record)
                /\ api_keys_by_prefix' = PutKeyIndex(api_keys_by_prefix, record)
                /\ arg' = [arg EXCEPT ![w] =
                             [call |-> "rotate_api_key", input |-> existing.id,
                              new_key |-> NewApiKey(id, existing.tenant_id,
                                                    existing.label, existing.scopes,
                                                    Some(existing.id), UtcNow)]]
                /\ Goto(w, "rotate_update")
    /\ next_key' = next_key + 1
    /\ UNCHANGED << ops, orch, registry, now, cur, pend, tenants, tenant_idempotency,
                    next_tenant, service, tokens, bundles, made >>

\* InMemoryPersistence::update_api_key(record), for a record that is stored
UpdateApiKey(record) ==
    /\ api_keys' = PutKeyRecord(api_keys, record)
    /\ api_keys_by_prefix' = PutKeyIndex(api_keys_by_prefix, record)

\* existing.revoked = true; existing.deleted_at = Some(Utc::now());
\* existing.rotated_to = Some(new_key.id); update_api_key(existing)
RotateUpdate(w) ==
    /\ pc[w] = "rotate_update"
    /\ UpdateApiKey([cur[w] EXCEPT !.revoked = TRUE,
                                   !.deleted_at = Some(UtcNow),
                                   !.rotated_to = Some(arg[w].new_key.id)])
    /\ Succeeds(w, "rotate_api_key", arg[w].input, arg[w].new_key)
    /\ UNCHANGED << ops, orch, registry, now, cur, pend, next_key, tenants,
                    tenant_idempotency, next_tenant, service, tokens, bundles, made >>

\* ------------------------------------------------ soft_delete_api_key
SoftDeleteGet(w, id) ==
    /\ Call(w)
    /\ IF id \in DOMAIN api_keys
       THEN /\ cur' = [cur EXCEPT ![w] = api_keys[id]]
            /\ arg' = [arg EXCEPT ![w] = [call |-> "soft_delete_api_key", input |-> id]]
            /\ Goto(w, "soft_delete_update")
       ELSE Fails(w, "soft_delete_api_key", id, "NotFound") /\ UNCHANGED cur
    /\ UNCHANGED << orch, registry, now, pend, iam >>

SoftDeleteUpdate(w) ==
    /\ pc[w] = "soft_delete_update"
    /\ UpdateApiKey([cur[w] EXCEPT !.deleted_at = Some(UtcNow),
                                   !.revoked = TRUE])
    /\ Succeeds(w, "soft_delete_api_key", arg[w].input, None)
    /\ UNCHANGED << ops, orch, registry, now, cur, pend, next_key, tenants,
                    tenant_idempotency, next_tenant, service, tokens, bundles, made >>

\* ----------------------------------------------------- revoke_api_key
RevokeGet(w, id) ==
    /\ Call(w)
    /\ IF id \in DOMAIN api_keys
       THEN /\ cur' = [cur EXCEPT ![w] = api_keys[id]]
            /\ arg' = [arg EXCEPT ![w] = [call |-> "revoke_api_key", input |-> id]]
            /\ Goto(w, "revoke_update")
       ELSE Fails(w, "revoke_api_key", id, "NotFound") /\ UNCHANGED cur
    /\ UNCHANGED << orch, registry, now, pend, iam >>

RevokeUpdate(w) ==
    /\ pc[w] = "revoke_update"
    /\ UpdateApiKey([cur[w] EXCEPT !.revoked = TRUE])
    /\ Succeeds(w, "revoke_api_key", arg[w].input, None)
    /\ UNCHANGED << ops, orch, registry, now, cur, pend, next_key, tenants,
                    tenant_idempotency, next_tenant, service, tokens, bundles, made >>

\* ----------------------------------------------- authenticate_api_key
\* resolve_access_ttl
ResolveAccessTtl(tenant_id, override_ttl) ==
    IF override_ttl # None THEN override_ttl[1]
    ELSE IF /\ tenant_id \in DOMAIN tenants
            /\ tenants[tenant_id].settings.token_ttl_seconds # None
            /\ tenants[tenant_id].settings.token_ttl_seconds[1] > 0
         THEN Seconds(tenants[tenant_id].settings.token_ttl_seconds[1])
         ELSE DefaultTtl

\* parse_api_key, get_api_key_by_prefix and the two gates of
\* authenticate_api_key: the error of the call, or "Ok"
AuthenticateError(token) ==
    IF token = Malformed THEN "InvalidInput"
    ELSE LET found == GetApiKeyByPrefix(api_keys, api_keys_by_prefix, token.prefix)
         IN  IF found = None THEN "Unauthorized"
             ELSE IF Inactive(found[1]) THEN "Forbidden"
             ELSE IF found[1].token_hash # HashSecret(token.secret)
                  THEN "Unauthorized"
             ELSE "Ok"

AuthenticateFails(w, token) ==
    /\ Call(w)
    /\ AuthenticateError(token) # "Ok"
    /\ Fails(w, "authenticate_api_key", token, AuthenticateError(token))
    /\ UNCHANGED << orch, registry, now, cur, pend, iam >>

AuthenticateGet(w, token) ==
    /\ Call(w)
    /\ AuthenticateError(token) = "Ok"
    /\ cur' = [cur EXCEPT ![w] =
                 GetApiKeyByPrefix(api_keys, api_keys_by_prefix, token.prefix)[1]]
    /\ arg' = [arg EXCEPT ![w] = [call |-> "authenticate_api_key", input |-> token,
                  issued_at |-> UtcNow]]
    /\ Goto(w, "authenticate_ttl")
    /\ UNCHANGED << orch, registry, now, pend, iam >>

\* let ttl = self.resolve_access_ttl(record.tenant_id, None)?
AuthenticateTtl(w) ==
    /\ pc[w] = "authenticate_ttl"
    /\ arg' = [arg EXCEPT ![w] =
                 [call |-> arg[w].call, input |-> arg[w].input,
                  issued_at |-> arg[w].issued_at,
                  ttl |-> ResolveAccessTtl(cur[w].tenant_id, None)]]
    /\ Goto(w, "authenticate_update")
    /\ UNCHANGED << ops, orch, registry, now, cur, pend, iam >>

\* record.last_used_at = Some(issued_at); update_api_key(record); Ok(..)
AuthenticateUpdate(w) ==
    /\ pc[w] = "authenticate_update"
    /\ UpdateApiKey([cur[w] EXCEPT !.last_used_at = Some(arg[w].issued_at)])
    /\ Succeeds(w, arg[w].call, arg[w].input,
                [principal_id |-> cur[w].id,
                    principal_type |-> "ServiceAccount",
                    tenant_id |-> cur[w].tenant_id,
                    scopes |-> cur[w].scopes,
                    issued_at |-> arg[w].issued_at,
                    expires_at |-> arg[w].issued_at + arg[w].ttl,
                    audience |-> None,
                    issuer |-> Some(Issuer),
                    session |-> None])
    /\ UNCHANGED << ops, orch, registry, now, cur, pend, next_key, tenants,
                    tenant_idempotency, next_tenant, service, tokens, bundles, made >>

\* The services are built over a store that holds one tenant; the callers
\* issue keys for it, rotate, revoke and delete them and authenticate.
KeyInit ==
    /\ ServicesOver(<< >>, << >>, (1 :> Acme(DefaultSettings)), None, 0)
    /\ limits = Limits(KeyMaxOps, 0)

KeyNext ==
    \/ \E w \in Caller, scopes \in IssueScopeLists, prefix \in PrefixSpace :
         IssueApiKey(w, 1, "ci", scopes, prefix)
    \/ \E w \in Caller, id \in KeyIds : RotateNotFound(w, id)
    \/ \E w \in Caller, id \in KeyIds : RotateInactive(w, id)
    \/ \E w \in Caller, id \in KeyIds : RotateGet(w, id)
    \/ \E w \in Threads, prefix \in PrefixSpace : RotateCreate(w, prefix)
    \/ \E w \in Threads : RotateUpdate(w)
    \/ \E w \in Caller, id \in KeyIds : SoftDeleteGet(w, id)
    \/ \E w \in Threads : SoftDeleteUpdate(w)
    \/ \E w \in Caller, id \in KeyIds : RevokeGet(w, id)
    \/ \E w \in Threads : RevokeUpdate(w)
    \/ \E w \in Caller, token \in PresentedKeys : AuthenticateFails(w, token)
    \/ \E w \in Caller, token \in PresentedKeys : AuthenticateGet(w, token)
    \/ \E w \in Threads : AuthenticateTtl(w)
    \/ \E w \in Threads : AuthenticateUpdate(w)
    \/ \E w \in Threads : AuthReturn(w)
    \/ \E w \in Threads : ErrorReturn(w)

KeySpec == KeyInit /\ [][KeyNext]_vars

\* ================================================================== tokens
TokenMaxOps == 2

\* the secret the AuthService signs with
ServiceSecret == "secret"
\* TokenUse, serialised in lowercase
Access == "access"
Refresh == "refresh"

\* chrono::serde::ts_seconds: a time is written as its whole seconds
TsSeconds(time) == time \div TicksPerSecond
\* chrono::serde::ts_seconds: the time read back from the seconds
FromTsSeconds(seconds) == seconds * TicksPerSecond
\* Uuid::to_string and Uuid::parse_str(..).unwrap_or_default()
UuidToString(id) == << "uuid", id >>
UuidParse(text) == IF text[1] = "uuid" THEN text[2] ELSE 0
\* format!("{:?}", ctx.principal_type) and the match of From<TokenClaims>
PrincipalTypeFromStr(text) ==
    IF text \in {"Tenant", "Agent", "ServiceAccount"} THEN text ELSE "Service"

\* TokenClaims::from_context, as serde_json writes it
FromContext(ctx, token_use, nonce) ==
    [sub |-> UuidToString(ctx.principal_id),
     tenant_id |-> UuidToString(ctx.tenant_id),
     scopes |-> [i \in DOMAIN ctx.scopes |-> ScopeAsStr(ctx.scopes[i])],
     prn_type |-> ctx.principal_type,
     aud |-> ctx.audience,
     iss |-> IF ctx.issuer = None THEN Issuer ELSE ctx.issuer[1],
     use |-> token_use,
     nonce |-> nonce,
     session |-> ctx.session,
     iat |-> TsSeconds(ctx.issued_at),
     exp |-> TsSeconds(ctx.expires_at)]

\* impl From<TokenClaims> for AuthContext
ContextFromClaims(claims) ==
    [principal_id |-> UuidParse(claims.sub),
     principal_type |-> PrincipalTypeFromStr(claims.prn_type),
     tenant_id |-> UuidParse(claims.tenant_id),
     scopes |-> [i \in DOMAIN claims.scopes |-> ScopeFromStr(claims.scopes[i])],
     issued_at |-> FromTsSeconds(claims.iat),
     expires_at |-> FromTsSeconds(claims.exp),
     audience |-> claims.aud,
     issuer |-> Some(claims.iss),
     session |-> claims.session]

\* HMAC-SHA256 of the signing input under the secret
Hmac(secret, header, payload) == << "hmac", secret, header, payload >>
\* sign_jwt
SignJwt(claims, secret) ==
    [header |-> "HS256", payload |-> claims,
     signature |-> Hmac(secret, "HS256", claims)]
\* verify_jwt: the claims, or None for Err(Unauthorized)
VerifyJwt(token, secret) ==
    IF token.header = "HS256"
       /\ token.signature = Hmac(secret, token.header, token.payload)
    THEN Some(token.payload) ELSE None

\* mutant of EnsureClaimsValid: the use of the token is not looked at
EnsureClaimsValidAnyUse(claims, expected_use, audience, time) ==
    /\ ~(FromTsSeconds(claims.exp) < time)
    /\ claims.iss = Issuer
    /\ audience # None => claims.aud = audience

\* ensure_claims_valid at time `time` for a service whose default audience
\* is `audience`
EnsureClaimsValid(claims, expected_use, audience, time) ==
    /\ claims.use = expected_use
    /\ ~(FromTsSeconds(claims.exp) < time)
    /\ claims.iss = Issuer
    /\ audience # None => claims.aud = audience

\* validate_token at time `time`: Some(context), or None for Unauthorized
ValidateToken(token, audience, time) ==
    LET claims == VerifyJwt(token, ServiceSecret)
    IN  IF claims # None /\ EnsureClaimsValid(claims[1], Access, audience, time)
        THEN Some(ContextFromClaims(claims[1])) ELSE None

\* resolve_refresh_ttl
ResolveRefreshTtl(tenant_id) ==
    IF /\ tenant_id \in DOMAIN tenants
       /\ tenants[tenant_id].settings.refresh_token_ttl_seconds # None
    THEN IF tenants[tenant_id].settings.refresh_token_ttl_seconds[1] > 0
         THEN Seconds(tenants[tenant_id].settings.refresh_token_ttl_seconds[1])
         ELSE 0
    ELSE DefaultRefreshTtl

\* issue_refresh_token
IssueRefreshToken(context, nonce) ==
    IF ResolveRefreshTtl(context.tenant_id) <= 0 THEN None
    ELSE Some(SignJwt(FromContext(
                 [context EXCEPT !.expires_at =
                      context.issued_at + ResolveRefreshTtl(context.tenant_id)],
                 Refresh, nonce), ServiceSecret))

\* issue_token_from_context: the AuthToken
AuthTokenOf(ctx, ttl) ==
    LET context == [ctx EXCEPT
                      !.issued_at = UtcNow,
                      !.expires_at = UtcNow + ResolveAccessTtl(ctx.tenant_id, ttl),
                      !.audience = IF ctx.audience = None THEN default_audience
                                   ELSE ctx.audience,
                      !.issuer = Some(Issuer)]
        issued == Cardinality(DOMAIN tokens)
    IN  [token |-> SignJwt(FromContext(context, Access, issued), ServiceSecret),
         context |-> context,
         refresh_token |-> IssueRefreshToken(context, issued + 1)]

\* the tokens of an AuthToken
TokensOf(auth_token) ==
    {auth_token.token}
      \cup IF auth_token.refresh_token = None THEN {}
           ELSE {auth_token.refresh_token[1]}
\* the callers hold the tokens of auth_token, first issued from `origin`
Held(auth_token, origin) ==
    [t \in DOMAIN tokens \cup TokensOf(auth_token) |->
        IF t \in DOMAIN tokens THEN tokens[t] ELSE origin]

\* ------------------------------------------------------------- inputs
\* the settings of the tenant of the store
TenantSettings ==
    { DefaultSettings, Settings(Some(0), Some(0)), Settings(Some(-30), Some(90)),
      Settings(Some(30), None) }
\* the contexts the callers of issue_token_from_context pass
ContextScopeLists ==
    { << Admin, Custom("reports:read") >>, << Custom("admin") >> }
ContextAudiences == { None, Some("web") }
Contexts ==
    [principal_id : {7}, principal_type : {"Agent"}, tenant_id : {1},
     scopes : ContextScopeLists, issued_at : {0}, expires_at : {0},
     audience : ContextAudiences, issuer : {None}, session : {None}]
\* the overrides the callers of issue_token_from_context pass
TtlOverrides == { None, Some(Seconds(0)), Some(Seconds(-1)) }
\* what with_default_audience was given, if it was called
DefaultAudiences == { None, Some("api") }
\* a token whose use was changed after it was signed
Tamper(token) ==
    [token EXCEPT !.payload.use = IF @ = Access THEN Refresh ELSE Access]
\* the tokens the callers present
PresentedTokens == DOMAIN tokens \cup { Tamper(t) : t \in DOMAIN tokens }

\* ------------------------------------------------------------- clock
\* the clock advances by one tick
ClockTick ==
    /\ ops < limits.ops
    /\ ops' = ops + 1
    /\ frac' = (frac + 1) % TicksPerSecond
    /\ now' = IF frac + 1 = TicksPerSecond THEN now + 1 ELSE now
    /\ UNCHANGED << orch, registry, locals, tenants, keys, tenant_idempotency, next_tenant,
                    default_audience, tokens, bundles, made >>

\* ------------------------------------------- issue_token_from_context
IssueTokenFromContext(w, ctx, ttl) ==
    /\ Call(w)
    /\ tokens' = Held(AuthTokenOf(ctx, ttl), ctx)
    /\ Succeeds(w, "issue_token_from_context", [context |-> ctx, ttl |-> ttl],
                AuthTokenOf(ctx, ttl))
    /\ UNCHANGED << orch, registry, now, cur, pend, tenants, keys, tenant_idempotency,
                    next_tenant, service, bundles, made >>

\* ----------------------------------------------- refresh_access_token
RefreshAccessToken(w, token) ==
    /\ Call(w)
    /\ LET claims == VerifyJwt(token, ServiceSecret)
       IN  IF claims # None
              /\ EnsureClaimsValid(claims[1], Refresh, default_audience, UtcNow)
           THEN /\ tokens' = Held(AuthTokenOf(ContextFromClaims(claims[1]), None),
                                  tokens[token])
                /\ Succeeds(w, "refresh_access_token", token,
                            AuthTokenOf(ContextFromClaims(claims[1]), None))
           ELSE /\ Fails(w, "refresh_access_token", token, "Unauthorized")
                /\ UNCHANGED tokens
    /\ UNCHANGED << orch, registry, now, cur, pend, tenants, keys, tenant_idempotency,
                    next_tenant, service, bundles, made >>

\* ----------------------------------------------------- validate_token
ValidateTokenCall(w, token) ==
    /\ Call(w)
    /\ IF ValidateToken(token, default_audience, UtcNow) # None
       THEN Succeeds(w, "validate_token", token,
                     ValidateToken(token, default_audience, UtcNow)[1])
       ELSE Fails(w, "validate_token", token, "Unauthorized")
    /\ UNCHANGED << orch, registry, now, cur, pend, iam >>

\* The services are built over a store that holds one tenant, with or without
\* a default audience; the callers issue a key and authenticate with it,
\* issue tokens from contexts, refresh and validate them, while the clock
\* advances.
TokenInit ==
    /\ \E settings \in TenantSettings, audience \in DefaultAudiences :
         ServicesOver(<< >>, << >>, (1 :> Acme(settings)), audience, 0)
    /\ limits = Limits(TokenMaxOps, 0)

TokenNext ==
    \/ ClockTick
    \/ \E w \in Caller : IssueApiKey(w, 1, "ci", << Admin >>, 0)
    \/ \E w \in Caller, token \in PresentedKeys : AuthenticateFails(w, token)
    \/ \E w \in Caller, token \in PresentedKeys : AuthenticateGet(w, token)
    \/ \E w \in Threads : AuthenticateTtl(w)
    \/ \E w \in Threads : AuthenticateUpdate(w)
    \/ \E w \in Caller, ctx \in Contexts, ttl \in TtlOverrides :
         IssueTokenFromContext(w, ctx, ttl)
    \/ \E w \in Caller, token \in PresentedTokens : RefreshAccessToken(w, token)
    \/ \E w \in Caller, token \in PresentedTokens : ValidateTokenCall(w, token)
    \/ \E w \in Threads : AuthReturn(w)
    \/ \E w \in Threads : ErrorReturn(w)

TokenSpec == TokenInit /\ [][TokenNext]_vars

\* ================================================================== agents
AgentMaxOps == 3
SweepMaxOps == 3

\* ProvisioningService::new: heartbeat_timeout = Duration::minutes(5)
HeartbeatTimeout == Minutes(5)

\* the strings of the model in the order of str::cmp
Lexical == << "", "acme", "edge-a", "edge-b", "globex" >>
Rank(string) == CHOOSE i \in 1..Len(Lexical) : Lexical[i] = string
\* the records `held` with the ids `ids`, sorted by sort_by on the field that
\* `rank` gives the position of
SortedBy(held, ids, rank(_)) ==
    IF ids = {} THEN << >>
    ELSE LET order == CHOOSE seq \in [1..Cardinality(ids) -> ids] :
                 /\ \A i, j \in DOMAIN seq : i < j => seq[i] # seq[j]
                 /\ \A i, j \in DOMAIN seq :
                      i < j => rank(held[seq[i]]) <= rank(held[seq[j]])
         IN  [i \in DOMAIN order |-> held[order[i]]]

\* an Agent
Agent(id, tenant_id, project_id, hostname, status, last_seen) ==
    [id |-> id, tenant_id |-> tenant_id, project_id |-> project_id,
     hostname |-> hostname, status |-> status, last_seen |-> last_seen,
     created_at |-> 0]

\* TenantStore::list_tenants
ListTenants ==
    LET ByName(tenant) == Rank(tenant.name)
    IN  SortedBy(tenants, DOMAIN tenants, ByName)

\* AgentStore::list_agents
ListAgents(tenant_id) ==
    LET ByHostname(agent) == Rank(agent.hostname)
    IN  SortedBy(agents, { a \in DOMAIN agents : agents[a].tenant_id = tenant_id },
                 ByHostname)

\* AgentStore::update_agent
UpdateAgent(agent) ==
    agents' = IF agent.id \in DOMAIN agents
              THEN [agents EXCEPT ![agent.id] = agent]
              ELSE agents

\* is_stale of sweep_inactive_agents, never
IsStaleNever(agent, threshold) == FALSE
\* is_stale of sweep_inactive_agents
IsStale(agent, threshold) ==
    IF agent.last_seen = None THEN TRUE ELSE agent.last_seen[1] < threshold

\* the time passes
Elapsed == { Minutes(2), Minutes(6) }
Elapse(d) ==
    /\ ops < limits.ops
    /\ ops' = ops + 1
    /\ now' = now + d \div TicksPerSecond
    /\ UNCHANGED << orch, locals, iam >>

\* ---------------------------------------------- record_agent_heartbeat
\* the values the callers pass as `when`
Whens == { None, Some(0) }

\* get_agent, and the fields the call sets on its copy
HeartbeatGet(w, agent_id, when) ==
    /\ Call(w)
    /\ quiet' = FALSE
    /\ swept' = swept \ {agent_id}
    /\ IF agent_id \in DOMAIN agents
       THEN /\ cur' = [cur EXCEPT ![w] =
                        [agents[agent_id] EXCEPT
                           !.last_seen = IF when = None THEN Some(UtcNow) ELSE when,
                           !.status = "Active"]]
            /\ arg' = [arg EXCEPT ![w] = [call |-> "record_agent_heartbeat",
                                          input |-> agent_id]]
            /\ Goto(w, "heartbeat_update")
       ELSE Fails(w, "record_agent_heartbeat", agent_id, "NotFound")
            /\ UNCHANGED cur
    /\ UNCHANGED << orch, now, pend, tenants, keys, tenant_idempotency,
                    next_tenant, service, tokens, bundles, made, projects,
                    agents, project_idempotency, next_project, beat >>

\* self.agents.update_agent(agent)
HeartbeatUpdate(w) ==
    /\ pc[w] = "heartbeat_update"
    /\ UpdateAgent(cur[w])
    /\ beat' = [beat EXCEPT ![cur[w].id] = cur[w].last_seen]
    /\ Succeeds(w, "record_agent_heartbeat", arg[w].input, None)
    /\ UNCHANGED << ops, orch, now, cur, pend, tenants, keys, tenant_idempotency,
                    next_tenant, service, tokens, bundles, made, projects,
                    project_idempotency, next_project, swept, quiet >>

\* ----------------------------------------------- sweep_inactive_agents
\* list_tenants and the threshold; `input` keeps the agents the store held
\* and the time when the call began
SweepTenants(w) ==
    /\ Call(w)
    /\ arg' = [arg EXCEPT ![w] =
                 [call |-> "sweep_inactive_agents",
                  input |-> [found |-> agents, at |-> UtcNow],
                  tenants |-> ListTenants,
                  threshold |-> UtcNow - HeartbeatTimeout,
                  listed |-> << >>,
                  suspended |-> << >>]]
    /\ Goto(w, "sweep_list")
    /\ UNCHANGED << orch, now, cur, pend, iam >>

\* for tenant in tenants: self.agents.list_agents(tenant.id)
SweepList(w) ==
    /\ pc[w] = "sweep_list"
    /\ arg[w].tenants # << >>
    /\ LET listed == ListAgents(Head(arg[w].tenants).id)
       IN  /\ arg' = [arg EXCEPT ![w].tenants = Tail(@), ![w].listed = listed]
           /\ Goto(w, IF listed = << >> THEN "sweep_list" ELSE "sweep_agent")
    /\ UNCHANGED << ops, orch, now, cur, pend, iam >>

\* the body of the inner loop for the next agent of the list
SweepAgent(w) ==
    /\ pc[w] = "sweep_agent"
    /\ LET agent == Head(arg[w].listed)
           suspended == [agent EXCEPT !.status = "Suspended"]
       IN  IF IsStale(agent, arg[w].threshold) /\ agent.status # "Suspended"
           THEN /\ UpdateAgent(suspended)
                /\ arg' = [arg EXCEPT ![w].listed = Tail(@),
                                      ![w].suspended = Append(@, suspended)]
           ELSE /\ arg' = [arg EXCEPT ![w].listed = Tail(@)]
                /\ UNCHANGED agents
    /\ Goto(w, IF Tail(arg[w].listed) = << >> THEN "sweep_list" ELSE "sweep_agent")
    /\ UNCHANGED << ops, orch, now, cur, pend, tenants, keys, tenant_idempotency,
                    next_tenant, service, tokens, bundles, made, projects,
                    project_idempotency, next_project, swept, quiet, beat >>

\* Ok(suspended)
SweepReturn(w) ==
    /\ pc[w] = "sweep_list"
    /\ arg[w].tenants = << >>
    /\ quiet' = TRUE
    /\ swept' = swept \cup { arg[w].suspended[i].id : i \in DOMAIN arg[w].suspended }
    /\ Succeeds(w, "sweep_inactive_agents", arg[w].input, arg[w].suspended)
    /\ UNCHANGED << ops, orch, now, cur, pend, tenants, keys, tenant_idempotency,
                    next_tenant, service, tokens, bundles, made, projects,
                    agents, project_idempotency, next_project, beat >>

\* ------------------------------------------------- the agents' services
AgentIds == {1, 2}
\* what an agent of the store may look like when the services are built
Enrolled == { << "Registered", None >>, << "Active", Some(0) >>,
              << "Suspended", None >> }
Hostname(id) == IF id = 1 THEN "edge-a" ELSE "edge-b"
\* a Project
Project(id, tenant_id, name, time) ==
    [id |-> id, tenant_id |-> tenant_id, name |-> name, created_at |-> time]

\* the services over a store with the tenant acme, its project 1 and two
\* agents of it
AgentInit ==
    /\ \E looks \in [AgentIds -> Enrolled] :
         PlatformOver(<< >>, << >>, (1 :> Acme(DefaultSettings)),
                      (1 :> Project(1, 1, "edge", 0)),
                      [a \in AgentIds |->
                         Agent(a, 1, 1, Hostname(a), looks[a][1], looks[a][2])],
                      None, 0)
    /\ limits = Limits(AgentMaxOps, 0)

AgentNext ==
    \/ \E d \in Elapsed : Elapse(d)
    \/ \E w \in Caller, a \in AgentIds \cup {UnknownKey}, when \in Whens :
         HeartbeatGet(w, a, when)
    \/ \E w \in Threads : HeartbeatUpdate(w)
    \/ \E w \in Caller : SweepTenants(w)
    \/ \E w \in Threads : SweepList(w)
    \/ \E w \in Threads : SweepAgent(w)
    \/ \E w \in Threads : SweepReturn(w)
    \/ \E w \in Threads : AuthReturn(w)
    \/ \E w \in Threads : ErrorReturn(w)

AgentSpec == AgentInit /\ [][AgentNext]_vars

\* the callers that may call when no call is running
Solo == { w \in Caller : \A v \in Threads : pc[v] = "idle" }

SweepInit ==
    /\ AgentInit!1
    /\ limits = Limits(SweepMaxOps, 0)

\* the operations on agents, one call at a time
SweepNext ==
    \/ \E d \in Elapsed : Elapse(d)
    \/ \E w \in Solo, a \in AgentIds \cup {UnknownKey}, when \in Whens :
         HeartbeatGet(w, a, when)
    \/ \E w \in Threads : HeartbeatUpdate(w)
    \/ \E w \in Solo : SweepTenants(w)
    \/ \E w \in Threads : SweepList(w)
    \/ \E w \in Threads : SweepAgent(w)
    \/ \E w \in Threads : SweepReturn(w)
    \/ \E w \in Threads : AuthReturn(w)
    \/ \E w \in Threads : ErrorReturn(w)

SweepSpec == SweepInit /\ [][SweepNext]_vars

\* ================================================================ projects
ProjMaxOps == 3

\* a second tenant of the store
Globex == NewTenant(2, "globex", DefaultSettings, 0)
\* the requests the callers of create_project_with_options send
ProjectCreateRequests ==
    [tenant_id : {1, 2, UnknownKey}, name : {"edge", ""},
     idempotency_key : { None, Some("k1") }, bootstrap_scripts : { << >> }]

\* the scripts of a ProjectBootstrap
ProjectScripts(requested, project_id) ==
    IF requested = << >>
    THEN << << "cassctl project init --project", project_id >> >>
    ELSE requested

\* ----------------------------------------- create_project_with_options
\* self.tenants.get_tenant(request.tenant_id)
CreateProjectGet(w, request) ==
    /\ Call(w)
    /\ IF request.tenant_id \in DOMAIN tenants
       THEN /\ arg' = [arg EXCEPT ![w] = [call |-> "create_project_with_options",
                                          input |-> request]]
            /\ Goto(w, "project_cache")
       ELSE Fails(w, "create_project_with_options", request, "NotFound")
    /\ UNCHANGED << orch, now, cur, pend, iam >>

\* self.project_idempotency.read().get(key), and the test of the name
CreateProjectCache(w) ==
    /\ pc[w] = "project_cache"
    /\ LET request == arg[w].input
       IN  IF /\ request.idempotency_key # None
              /\ request.idempotency_key[1] \in DOMAIN project_idempotency
           THEN Succeeds(w, arg[w].call, request,
                         project_idempotency[request.idempotency_key[1]])
           ELSE IF request.name = ""
           THEN Fails(w, arg[w].call, request, "InvalidInput")
           ELSE Goto(w, "project_insert") /\ UNCHANGED arg
    /\ UNCHANGED << ops, orch, now, cur, pend, iam >>

\* Project { id: Uuid::new_v4(), .. }; self.projects.insert_project(project)
CreateProjectInsert(w) ==
    /\ pc[w] = "project_insert"
    /\ LET request == arg[w].input
           project == Project(next_project + 1, request.tenant_id, request.name,
                              UtcNow)
       IN  /\ next_project' = next_project + 1
           /\ IF project.tenant_id \notin DOMAIN tenants
              THEN /\ Fails(w, arg[w].call, request, "NotFound")
                   /\ UNCHANGED << projects, cur >>
              ELSE /\ projects' = (project.id :> project) @@ projects
                   /\ cur' = [cur EXCEPT ![w] =
                                [project |-> project,
                                 bootstrap_scripts |->
                                   ProjectScripts(request.bootstrap_scripts,
                                                  project.id)]]
                   /\ Goto(w, "project_idempotency")
                   /\ UNCHANGED arg
    /\ UNCHANGED << ops, orch, now, pend, tenants, keys, tenant_idempotency,
                    next_tenant, service, tokens, bundles, made, agents,
                    project_idempotency, swept, quiet, beat >>

\* self.project_idempotency.write().insert(key, bundle); Ok(bundle)
CreateProjectReturn(w) ==
    /\ pc[w] = "project_idempotency"
    /\ project_idempotency' =
         IF arg[w].input.idempotency_key = None THEN project_idempotency
         ELSE (arg[w].input.idempotency_key[1] :> cur[w]) @@ project_idempotency
    /\ Succeeds(w, arg[w].call, arg[w].input, cur[w])
    /\ UNCHANGED << ops, orch, now, cur, pend, tenants, keys, tenant_idempotency,
                    next_tenant, service, tokens, bundles, made, projects, agents,
                    next_project, swept, quiet, beat >>

\* the services over a store with the tenants acme and globex
ProjInit ==
    /\ ServicesOver(<< >>, << >>, (1 :> Acme(DefaultSettings)) @@ (2 :> Globex),
                    None, 0)
    /\ limits = Limits(ProjMaxOps, 0)

ProjNext ==
    \/ \E w \in Caller, request \in ProjectCreateRequests :
         CreateProjectGet(w, request)
    \/ \E w \in Threads : CreateProjectCache(w)
    \/ \E w \in Threads : CreateProjectInsert(w)
    \/ \E w \in Threads : CreateProjectReturn(w)
    \/ \E w \in Threads : AuthReturn(w)
    \/ \E w \in Threads : ErrorReturn(w)

ProjSpec == ProjInit /\ [][ProjNext]_vars

\* ===================================================== register_workflow
RegMaxOps == 3

\* two steps with the same id
Repeated == << Step("A", "ka", {}), Step("A", "kb", {}) >>
\* two steps that wait for each other
Cyclic ==
    << Step("A", "ka", { Dep("kb", "Completed") }),
       Step("B", "kb", { Dep("ka", "Completed") }) >>
\* the step lists the callers of register_workflow pass
SubmittedShapes == WorkflowShapes \cup { Repeated, Cyclic, << >> }

\* steps.is_empty(): Err(InvalidInput)
RegisterWorkflowInvalid(tenant, steps) ==
    /\ ops < limits.ops
    /\ ops' = ops + 1
    /\ steps = << >>
    /\ UNCHANGED << store, engine, now, next_token, locals, history, limits, iam,
                    wf >>

RegInit ==
    /\ Constructed
    /\ limits = Limits(RegMaxOps, 0)

RegNext ==
    \/ \E tenant \in WfTenants, steps \in SubmittedShapes :
         RegisterWorkflow(tenant, steps)
    \/ \E tenant \in WfTenants, steps \in SubmittedShapes :
         RegisterWorkflowInvalid(tenant, steps)

RegSpec == RegInit /\ [][RegNext]_vars

\* ============================================================ task store
\* The calls of the TaskStore, each one critical section of the store lock.
StoreMaxTasks == 2
StoreMaxOps == 4

TaskStatuses == {"Pending", "InProgress", "Completed", "Failed"}

\* InMemoryPersistence::enqueue_task
EnqueueTask(task) ==
    /\ ops < limits.ops
    /\ ops' = ops + 1
    /\ IF task.id \in DOMAIN tasks
       THEN UNCHANGED store
       ELSE /\ task_queue' = Append(task_queue, task.id)
            /\ tasks' = (task.id :> task) @@ tasks
    /\ UNCHANGED << engine, now, next_token, locals, history, limits, iam, wf >>

\* the position peek_next_task finds: the first entry of the queue that is
\* a Pending task of the tenant, or None
PeekIndex(tenant) ==
    LET hits == { i \in DOMAIN task_queue :
                    /\ task_queue[i] \in DOMAIN tasks
                    /\ tasks[task_queue[i]].tenant_id = tenant
                    /\ tasks[task_queue[i]].status = "Pending" }
    IN  IF hits = {} THEN None
        ELSE Some(CHOOSE i \in hits : \A j \in hits : i <= j)

\* VecDeque::remove(i)
RemoveAt(q, i) == [k \in 1 .. Len(q) - 1 |-> IF k < i THEN q[k] ELSE q[k + 1]]

\* InMemoryPersistence::peek_next_task
PeekNextTask(tenant) ==
    /\ ops < limits.ops
    /\ ops' = ops + 1
    /\ IF PeekIndex(tenant) = None
       THEN UNCHANGED store
       ELSE LET i == PeekIndex(tenant)[1]
                id == task_queue[i]
            IN  /\ task_queue' = RemoveAt(task_queue, i)
                /\ tasks' = [tasks EXCEPT ![id].status = "InProgress",
                                          ![id].started_at = Some(now)]
    /\ UNCHANGED << engine, now, next_token, locals, history, limits, iam, wf >>

\* InMemoryPersistence::update_task
UpdateTask(task) ==
    /\ ops < limits.ops
    /\ ops' = ops + 1
    /\ IF task.id \notin DOMAIN tasks
       THEN UNCHANGED store
       ELSE /\ task_queue' = UpdateTaskQueue(task_queue, task)
            /\ tasks' = UpdateTaskMap(tasks, task)
    /\ UNCHANGED << engine, now, next_token, locals, history, limits, iam, wf >>

\* the tasks the callers of enqueue_task pass: schedule_task builds them
EnqueuedTasks ==
    { NewTask(id, tenant, "ka", PlainPayload, None, now) :
        id \in 1 .. limits.tasks, tenant \in SchedTenants }
\* the tasks the callers of update_task pass: a stored task with the status
\* they set, or a task the store does not hold
UpdatedTasks ==
    { [tasks[id] EXCEPT !.status = status] :
        id \in DOMAIN tasks, status \in TaskStatuses }
      \cup { NewTask(limits.tasks + 1, "t1", "ka", PlainPayload, None, now) }

StoreInit ==
    /\ Constructed
    /\ limits = Limits(StoreMaxOps, StoreMaxTasks)

StoreNext ==
    \/ \E task \in EnqueuedTasks : EnqueueTask(task)
    \/ \E tenant \in SchedTenants : PeekNextTask(tenant)
    \/ \E task \in UpdatedTasks : UpdateTask(task)

StoreSpec == StoreInit /\ [][StoreNext]_vars

\* ================================================================ backoff
\* One tenant schedules tasks, leases them and fails them with retry while
\* the clock advances.
BackoffMaxTasks == 2
BackoffMaxOps == 5

BackoffInit ==
    /\ Constructed
    /\ limits = Limits(BackoffMaxOps, BackoffMaxTasks)

BackoffNext ==
    \/ Tick
    \/ \E w \in Caller : SchedulePolicy(w, "t1", "ka")
    \/ \E w \in Threads : ScheduleEnqueue(w)
    \/ \E w \in Caller : LeaseList(w, "t1", 1)
    \/ \E w \in Threads : LeaseNone(w)
    \/ \E w \in Threads : LeaseSelect(w)
    \/ \E w \in Threads : LeaseUpdate(w)
    \/ \E w \in Threads : LeaseStart(w)
    \/ \E w \in Caller, t \in DOMAIN tasks : FailGet(w, t, TRUE)
    \/ \E w \in Threads : FailPolicy(w)
    \/ \E w \in Threads : FailUpdate(w)
    \/ \E w \in Threads : FailClear(w)

BackoffSpec == BackoffInit /\ [][BackoffNext]_vars

\* ============================================================== claims
\* steps of the calls, as seen on a transition
LeaseReturns(w) == pc[w] = "lease_start" /\ pc'[w] = "idle"
RenewCalled(w) == pc[w] = "idle" /\ pc'[w] = "renew_return"
FailReadsPolicy(w) == pc[w] = "fail_policy" /\ pc'[w] = "fail_update"
FailWrites(w) == pc[w] = "fail_update" /\ pc'[w] = "fail_clear"
HasLease(t) == LeaseGet(lease_states, t) # {}
TheLease(t) == CHOOSE l \in LeaseGet(lease_states, t) : TRUE

\* C1: a task is handed out by lease_next_task to at most one caller per
\* stay in Pending: between two TaskLeases for the same task there is a
\* fail_task(retry = true) that put it back to Pending.
C1_NoDoubleDispatch == \A t \in TaskIds : dispatched[t] <= 1

\* C2: the lease_version returned by a successful lease_next_task or
\* renew_task_lease is greater than every lease_version returned before
\* for the same task, over the whole life of the task.
C2_VersionIncreases ==
    [][\A w \in Threads :
         /\ LeaseReturns(w) =>
              lastVer'[cur[w].id] > lastVer[cur[w].id]
         /\ (RenewCalled(w) /\ arg'[w].result = "Ok") =>
              lastVer'[arg'[w].task_id] > lastVer[arg'[w].task_id]]_vars

\* C3: once complete_task or a terminal fail_task on a task has returned,
\* the task has no LeaseState and no (worker, token) can renew it.
C3_NoLeaseAfterTerminal ==
    \A t \in TaskIds :
        finished[t] =>
            /\ ~ HasLease(t)
            /\ \A wk \in WorkerIds, tok \in 1 .. next_token + 1 :
                 RenewCheck(lease_states, t, wk, tok, now) # "ok"

\* C4: Completed and Failed are terminal, and the only changes of a stored
\* status are Pending -> InProgress, InProgress -> Completed,
\* InProgress -> Failed and InProgress -> Pending.
C4_StatusMachine ==
    [][\A t \in DOMAIN tasks :
         tasks'[t].status # tasks[t].status =>
             << tasks[t].status, tasks'[t].status >> \in
                 { << "Pending", "InProgress" >>, << "InProgress", "Completed" >>,
                   << "InProgress", "Failed" >>, << "InProgress", "Pending" >> }]_vars

\* C5: fail_task returns and stores the task it read with attempts + 1; with
\* a the new attempts and the policy of the task's kind (max_retries 3 when
\* none is registered): Pending with started_at and completed_at cleared and
\* scheduled_at = now + backoff if retry and a <= max_retries, else Failed
\* with completed_at set.  max_retries = 0: the first failure is terminal;
\* max_retries = 1: the second one is.
C5_FailTaskRule ==
    [][\A w \in Threads :
         /\ FailReadsPolicy(w) =>
              LET kind == cur[w].kind
                  p == arg'[w].policy
              IN  /\ p.max_retries = IF kind \in DOMAIN task_policies
                                     THEN task_policies[kind].max_retries
                                     ELSE 3
                  /\ p.backoff_seconds = IF kind \in DOMAIN task_policies
                                         THEN task_policies[kind].backoff_seconds
                                         ELSE Some(30)
         /\ FailWrites(w) =>
              LET old == cur[w]
                  new == tasks'[old.id]
                  p == arg[w].policy
                  a == old.attempts + 1
                  backoff == IF p.backoff_seconds = None
                             THEN 0 ELSE Unwrap(p.backoff_seconds)
              IN  /\ new = cur'[w]
                  /\ new.attempts = a
                  /\ IF arg[w].retry /\ a <= p.max_retries
                     THEN /\ new.status = "Pending"
                          /\ new.started_at = None
                          /\ new.completed_at = None
                          /\ new.scheduled_at = now + backoff
                     ELSE /\ new.status = "Failed"
                          /\ new.completed_at # None
                  /\ (p.max_retries = 0 /\ a = 1) => new.status = "Failed"
                  /\ (p.max_retries = 1 /\ a = 2) => new.status = "Failed"]_vars

\* C5 witness: with max_retries = 1 the second failure, asked to retry, has
\* been stored as Failed with attempts = 2
C5_Witness ==
    \E w \in Threads :
        /\ pc[w] = "fail_clear"
        /\ arg[w].retry
        /\ arg[w].policy.max_retries = 1
        /\ cur[w].attempts = 2
        /\ tasks[cur[w].id].status = "Failed"

\* C6: renew_task_lease returns InvalidInput when the task has no lease,
\* when worker_id or token differ from the stored lease, or when
\* lease_expires_at < now; a failing call leaves lease_states and the tasks
\* unchanged.
C6_RenewRejects ==
    [][\A w \in Threads :
         RenewCalled(w) =>
             LET a == arg'[w]
                 t == a.task_id
                 refused ==
                     \/ ~ HasLease(t)
                     \/ TheLease(t).worker_id # a.worker_id
                     \/ TheLease(t).token # a.lease_token
                     \/ TheLease(t).lease_expires_at < now
             IN  /\ refused => a.result = "InvalidInput"
                 /\ a.result # "Ok" =>
                      /\ lease_states' = lease_states
                      /\ tasks' = tasks]_vars

\* C6 witness: a renewal by the holder (same worker and token) of an
\* expired lease was refused
C6_Witness ==
    \E w \in Threads :
        /\ pc[w] = "renew_return"
        /\ arg[w].result = "InvalidInput"
        /\ HasLease(arg[w].task_id)
        /\ TheLease(arg[w].task_id).worker_id = arg[w].worker_id
        /\ TheLease(arg[w].task_id).token = arg[w].lease_token
        /\ TheLease(arg[w].task_id).lease_expires_at < now

\* C7: the first lease of a task has lease_version 1; a renewal with the
\* (worker, token) of an unexpired lease succeeds and returns version + 1
\* and lease_expires_at + extend, with worker_id, token and leased_at as
\* they were.
C7_RenewResult ==
    [][\A w \in Threads :
         /\ (LeaseReturns(w) /\ lastVer[cur[w].id] = 0) =>
              /\ lastVer'[cur[w].id] = 1
              /\ \E l \in lease_states' : l.task_id = cur[w].id /\ l.version = 1
         /\ RenewCalled(w) =>
              LET a == arg'[w]
                  t == a.task_id
              IN  (/\ HasLease(t)
                   /\ TheLease(t).worker_id = a.worker_id
                   /\ TheLease(t).token = a.lease_token
                   /\ TheLease(t).lease_expires_at >= now) =>
                      /\ a.result = "Ok"
                      /\ Unwrap(a.lease) =
                           [task_id |-> t,
                            worker_id |-> TheLease(t).worker_id,
                            leased_at |-> TheLease(t).leased_at,
                            lease_expires_at |->
                                TheLease(t).lease_expires_at + a.extend_by,
                            lease_version |-> TheLease(t).version + 1,
                            lease_token |-> TheLease(t).token]
                      /\ LeaseGet(lease_states', t) =
                           { [TheLease(t) EXCEPT
                                !.version = @ + 1,
                                !.lease_expires_at = @ + a.extend_by] }]_vars

\* C7 witness: the first lease of a task (version 1) has been renewed
C7_Witness ==
    \E w \in Threads :
        /\ pc[w] = "renew_return"
        /\ arg[w].result = "Ok"
        /\ Unwrap(arg[w].lease).lease_version = 2

\* C8: at most one LeaseState per task id, and at most one (worker, token)
\* pair that renew_task_lease accepts for a task.
C8_OneLeasePerTask ==
    \A t \in TaskIds :
        /\ Cardinality(LeaseGet(lease_states, t)) <= 1
        /\ Cardinality({ p \in WorkerIds \X (1 .. next_token + 1) :
               \E l \in lease_states :
                   /\ l.task_id = t
                   /\ l.worker_id = p[1]
                   /\ l.token = p[2]
                   /\ l.lease_expires_at >= now }) <= 1

\* C8 witness: two TaskLeases were handed out for a task and it has a lease
C8_Witness == \E t \in TaskIds : dispatched[t] = 2 /\ HasLease(t)

\* C9: the stored attempts of a task never decreases.
C9_AttemptsMonotone ==
    [][\A t \in DOMAIN tasks : tasks'[t].attempts >= tasks[t].attempts]_vars

\* C10: completed_at is set exactly when the status is Completed or Failed.
C10_CompletedAt ==
    \A t \in DOMAIN tasks :
        tasks[t].completed_at # None <=> tasks[t].status \in {"Completed", "Failed"}

\* C10 witness: a task that was completed is Pending again (fail_task with
\* retry) and its completed_at is cleared
C10_Witness ==
    \E t \in DOMAIN tasks :
        /\ finished[t]
        /\ tasks[t].status = "Pending"
        /\ tasks[t].completed_at = None

\* ------------------------------------------------ workflow runtime claims
\* the tasks enqueued for step step_id of run run_id
StepTasks(run_id, step_id) ==
    { t \in DOMAIN tasks :
        /\ WorkflowContext(tasks[t]) # None
        /\ Unwrap(WorkflowContext(tasks[t])).workflow_run_id = run_id
        /\ Unwrap(WorkflowContext(tasks[t])).step_id = step_id }
RunTasks(run_id) ==
    { t \in DOMAIN tasks :
        /\ WorkflowContext(tasks[t]) # None
        /\ Unwrap(WorkflowContext(tasks[t])).workflow_run_id = run_id }
\* the threads that are building run run_id in schedule_workflow
Building(run_id) ==
    { w \in Threads : pc[w] \in {"wf_policy", "wf_enqueue", "wf_insert"}
                        /\ arg[w].run.id = run_id }
\* the states in which run run_id exists: in workflow_runs, removed from it,
\* or still local to schedule_workflow
RunStates(run_id) ==
    (IF run_id \in DOMAIN workflow_runs THEN { workflow_runs[run_id] } ELSE {})
    \cup (IF run_id \in DOMAIN ended_runs THEN { ended_runs[run_id] } ELSE {})
    \cup { arg[w].state : w \in Building(run_id) }

\* C11: for every task with workflow context on which complete_task has
\* returned, the kind of its step is in the run's completed_kinds, and for
\* every terminal fail_task in failed_kinds, also when the task was leased
\* and completed while schedule_workflow of the run is still executing.
\* (Stated for the tasks a lease was handed out for.)
C11_OutcomeRecorded ==
    \A t \in DOMAIN tasks :
        (WorkflowContext(tasks[t]) # None /\ lastVer[t] >= 1) =>
            LET run_id == Unwrap(WorkflowContext(tasks[t])).workflow_run_id
            IN  /\ "Completed" \in outcomes[t] =>
                     \A st \in RunStates(run_id) : tasks[t].kind \in st.completed_kinds
                /\ "Failed" \in outcomes[t] =>
                     \A st \in RunStates(run_id) : tasks[t].kind \in st.failed_kinds

\* C12: within a run each step id is moved from waiting to inflight and
\* enqueued as a task at most once, whatever the interleaving of the
\* outcome calls: a step has at most one task, and a step that has a task
\* or is in flight is not waiting.
C12_StepEnqueuedOnce ==
    \A run_id \in 1 .. next_run :
        \A st \in RunStates(run_id) :
            /\ st.waiting_steps \cap st.inflight_steps = {}
            /\ \A step_id \in DOMAIN st.step_lookup :
                 /\ Cardinality(StepTasks(run_id, step_id)) <= 1
                 /\ StepTasks(run_id, step_id) # {} => step_id \notin st.waiting_steps

\* C12 witness: a thread has popped a step in handle_task_outcome and not
\* yet enqueued it, and meanwhile the outcome call on another task of the
\* same run has returned
C12_Witness ==
    \E w \in Threads, t \in DOMAIN tasks :
        /\ pc[w] = "outcome_policy"
        /\ t # cur[w].id
        /\ t \in RunTasks(arg[w].run.id)
        /\ outcomes[t] # {}

\* C13: a run whose status is Completed, Failed or Cancelled is not in the
\* active index and has completed_at set: get_workflow_run never returns a
\* terminated run.
C13_TerminatedRunAbsent ==
    /\ \A w \in Threads :
         pc[w] = "get_run_return" =>
             \/ arg[w].result = None
             \/ ~ RunTerminated(Unwrap(arg[w].result))
    /\ \A run_id \in DOMAIN ended_runs :
         /\ RunTerminated(ended_runs[run_id].run)
         /\ ended_runs[run_id].run.completed_at # None

\* C14: in a run of the workflow A, B with B depending on (kind of A,
\* Failed): schedule_workflow enqueues only A, a terminal fail_task on A's
\* task that is recorded in the run takes B out of waiting, and the run
\* that ends after B's task was completed has status Completed.
C14_Compensation ==
    \A run_id \in 1 .. next_run :
        \A st \in RunStates(run_id) :
            workflows[st.run.workflow_id].steps = Compensation =>
                /\ \A w \in Building(run_id) :
                     pc[w] = "wf_insert" =>
                         /\ StepTasks(run_id, "A") # {}
                         /\ StepTasks(run_id, "B") = {}
                /\ "ka" \in st.failed_kinds => "B" \notin st.waiting_steps
                /\ (/\ run_id \in DOMAIN ended_runs
                    /\ \E t \in StepTasks(run_id, "B") : outcomes[t] = {"Completed"})
                       => st.run.status = "Completed"

\* C15: the status of a finished run is Completed if and only if
\* failed_kinds is empty, and Failed otherwise.
C15_FinalStatus ==
    \A run_id \in 1 .. next_run :
        \A st \in RunStates(run_id) :
            RunTerminated(st.run) =>
                /\ st.run.status \in {"Completed", "Failed"}
                /\ st.run.status = "Completed" <=> st.failed_kinds = {}

\* C15 witness: a run has ended Failed
C15_Witness ==
    \E run_id \in DOMAIN ended_runs :
        /\ ended_runs[run_id].run.status = "Failed"
        /\ ended_runs[run_id].failed_kinds # {}

\* C16: a run is finished (completed_at set and status Completed or Failed)
\* exactly when waiting_steps and inflight_steps are both empty: never while
\* a step is waiting or in flight, and a run with both empty is finished.
C16_FinishedIffDone ==
    \A run_id \in 1 .. next_run :
        \A st \in RunStates(run_id) :
            /\ (st.waiting_steps = {} /\ st.inflight_steps = {})
                  <=> st.run.status \in {"Completed", "Failed"}
            /\ st.run.completed_at # None <=> st.run.status \in {"Completed", "Failed"}
            /\ run_id \in DOMAIN ended_runs =>
                  st.waiting_steps = {} /\ st.inflight_steps = {}

\* C16 witness: the outcome of the last step in flight has just been
\* recorded: the run is finished and still in workflow_runs
C16_Witness ==
    \E w \in Threads :
        /\ pc[w] = "outcome_remove"
        /\ arg[w].run.id \in DOMAIN workflow_runs
        /\ workflow_runs[arg[w].run.id].run.completed_at # None
        /\ workflow_runs[arg[w].run.id].completed_kinds # {}

\* C17: a step has a task only if each of its dependencies is satisfied in
\* the run: (kind, Completed) by kind in completed_kinds, (kind, Failed) by
\* kind in failed_kinds, Pending and InProgress always; the kind counts, not
\* the step that reached the outcome.
C17_DependenciesSatisfied ==
    \A run_id \in 1 .. next_run :
        \A st \in RunStates(run_id) :
            \A step_id \in DOMAIN st.step_lookup :
                StepTasks(run_id, step_id) # {} =>
                    \A dep \in st.step_lookup[step_id].dependencies :
                        /\ dep.required_status = "Completed" =>
                             dep.task_kind \in st.completed_kinds
                        /\ dep.required_status = "Failed" =>
                             dep.task_kind \in st.failed_kinds

\* C17 witness: in a run of FanIn step C (waiting for a completed ka) has a
\* task although step A has no outcome: B, of the same kind, completed
C17_Witness ==
    \E run_id \in DOMAIN workflow_runs :
        /\ workflows[workflow_runs[run_id].run.workflow_id].steps = FanIn
        /\ StepTasks(run_id, "C") # {}
        /\ StepTasks(run_id, "B") # {}
        /\ \A t \in StepTasks(run_id, "A") : outcomes[t] = {}

\* C18: if every task enqueued for a run is leased and then completed or
\* terminally failed, the run eventually finishes: once every task of a run
\* in workflow_runs has been leased and has its outcome recorded in the run,
\* the run eventually leaves workflow_runs.
RunSettled(run_id) ==
    /\ run_id \in DOMAIN workflow_runs
    /\ RunTasks(run_id) # {}
    /\ \A t \in RunTasks(run_id) :
         /\ lastVer[t] >= 1
         /\ tasks[t].started_at # None
         /\ outcomes[t] # {}
         /\ "Completed" \in outcomes[t] =>
              tasks[t].kind \in workflow_runs[run_id].completed_kinds
         /\ "Failed" \in outcomes[t] =>
              tasks[t].kind \in workflow_runs[run_id].failed_kinds
C18_RunFinishes ==
    \A run_id \in 1 .. WfMaxOps :
        [](RunSettled(run_id) => <>(run_id \notin DOMAIN workflow_runs))

\* C19: schedule_workflow on an unknown workflow id returns NotFound, on a
\* workflow of another tenant Forbidden, and a call that returns an error
\* creates no run and enqueues no task.
C19_ScheduleWorkflowErrors ==
    [][\A w \in Threads :
         /\ (/\ pc[w] = "idle"
             /\ pc'[w] \in {"error_return", "wf_policy", "wf_insert"}
             /\ "workflow_id" \in DOMAIN arg'[w]) =>
                LET a == arg'[w]
                    known == a.workflow_id \in DOMAIN workflows
                IN  /\ ~ known => pc'[w] = "error_return" /\ a.result = "NotFound"
                    /\ (known /\ workflows[a.workflow_id].tenant_id # a.tenant_id) =>
                         pc'[w] = "error_return" /\ a.result = "Forbidden"
                    /\ pc'[w] = "error_return" =>
                         /\ tasks' = tasks /\ task_queue' = task_queue
                         /\ workflow_runs' = workflow_runs
                         /\ next_run' = next_run
         /\ (pc[w] = "error_return" /\ pc'[w] = "idle") =>
                /\ tasks' = tasks /\ task_queue' = task_queue
                /\ workflow_runs' = workflow_runs
                /\ next_run' = next_run]_vars

\* C19 witness: a schedule_workflow by another tenant than the workflow's
\* was refused
C19_Witness ==
    \E w \in Threads :
        /\ pc[w] = "error_return"
        /\ arg[w].result = "Forbidden"
        /\ workflows[arg[w].workflow_id].tenant_id # arg[w].tenant_id

\* ------------------------------------------------------ scheduler claims
\* C20: under Fifo, lease_next_task(tenant) returns a task that the store
\* listed as Pending for that tenant, with the least scheduled_at of the
\* tenant's Pending tasks, and returns None exactly when the tenant has no
\* Pending task.  list_pending_tasks is the call's one read of the store.
C20_FifoSelection ==
    [][\A w \in Threads :
         /\ (pc[w] = "idle" /\ pc'[w] = "lease_select") =>
              pend'[w] = { tasks[t] : t \in { u \in DOMAIN tasks :
                                /\ tasks[u].tenant_id = arg'[w].tenant_id
                                /\ tasks[u].status = "Pending" } }
         /\ (pc[w] = "lease_select" /\ pc'[w] # "lease_select"
                                    /\ scheduler = "Fifo") =>
              IF pend[w] = {}
              THEN /\ pc'[w] = "idle"
                   /\ tasks' = tasks /\ lease_states' = lease_states
              ELSE /\ pc'[w] = "lease_update"
                   /\ cur'[w] \in pend[w]
                   /\ cur'[w].tenant_id = arg[w].tenant_id
                   /\ cur'[w].status = "Pending"
                   /\ \A u \in pend[w] : cur'[w].scheduled_at <= u.scheduled_at
         /\ (pc[w] = "lease_update" /\ pc'[w] # "lease_update") =>
              /\ pc'[w] = "lease_start"
              /\ cur'[w].id = cur[w].id
              /\ tasks'[cur[w].id] = cur'[w]
              /\ cur'[w].status = "InProgress"
         /\ (pc[w] = "lease_start" /\ pc'[w] # "lease_start") =>
              \E l \in lease_states' :
                  /\ l.task_id = cur[w].id
                  /\ l.worker_id = arg[w].worker_id
                  /\ l.token = next_token']_vars

\* C20 witness: under Fifo a call has selected the second task of a tenant
\* although the first one is Pending too: the first one was put back by
\* fail_task with a later scheduled_at
C20_Witness ==
    \E w \in Threads, u \in DOMAIN tasks :
        /\ pc[w] = "lease_update"
        /\ scheduler = "Fifo"
        /\ u < cur[w].id
        /\ tasks[u].tenant_id = cur[w].tenant_id
        /\ tasks[u].status = "Pending"
        /\ tasks[u].scheduled_at > cur[w].scheduled_at

\* C21: under Priority, lease_next_task(tenant) returns a task that the
\* store listed as Pending for that tenant, of a kind whose policy priority
\* (100 for a kind without a registered policy) is the least among the
\* listed tasks, and among those of that priority one with the least
\* scheduled_at.  The priorities are those registered when select_task
\* reads task_policies.
C21_PrioritySelection ==
    [][\A w \in Threads :
         /\ (pc[w] = "idle" /\ pc'[w] = "lease_select") =>
              pend'[w] = { tasks[t] : t \in { u \in DOMAIN tasks :
                                /\ tasks[u].tenant_id = arg'[w].tenant_id
                                /\ tasks[u].status = "Pending" } }
         /\ (pc[w] = "lease_priority" /\ pc'[w] # "lease_priority") =>
              LET prio(t) == IF t.kind \in DOMAIN task_policies
                             THEN task_policies[t.kind].priority ELSE 100
              IN  /\ pc'[w] = "lease_update"
                  /\ cur'[w] \in pend[w]
                  /\ cur'[w].tenant_id = arg[w].tenant_id
                  /\ cur'[w].status = "Pending"
                  /\ \A u \in pend[w] :
                       \/ prio(cur'[w]) < prio(u)
                       \/ /\ prio(cur'[w]) = prio(u)
                          /\ cur'[w].scheduled_at <= u.scheduled_at
         /\ (pc[w] = "lease_update" /\ pc'[w] # "lease_update") =>
              /\ pc'[w] = "lease_start"
              /\ cur'[w].id = cur[w].id
              /\ tasks'[cur[w].id] = cur'[w]]_vars

\* C21 witness: under Priority a call has selected a task of a kind without
\* a policy although a task of another kind was listed with an earlier
\* scheduled_at: that kind's registered priority is higher than 100
C21_Witness ==
    \E w \in Threads, u \in DOMAIN tasks :
        /\ pc[w] = "lease_update"
        /\ scheduler = "Priority"
        /\ cur[w].kind \notin DOMAIN task_policies
        /\ tasks[u].status = "Pending"
        /\ tasks[u].tenant_id = cur[w].tenant_id
        /\ tasks[u].scheduled_at < cur[w].scheduled_at
        /\ tasks[u].kind \in DOMAIN task_policies
        /\ task_policies[tasks[u].kind].priority > 100

\* C22: under FairnessByKind lease_next_task selects the earliest listed
\* task whose kind differs from the last-kind cursor, or the earliest listed
\* task when all have that kind; the cursor is changed only by a call that
\* dispatches a task; and a task dispatched right after one of the same
\* kind leaves no Pending task of another kind behind for its tenant.
C22_FairnessByKind ==
    [][\A w \in Threads :
         /\ (pc[w] = "lease_fairness" /\ pc'[w] # "lease_fairness") =>
              LET other == { u \in pend[w] : Some(u.kind) # last_kind }
                  among == IF other # {} THEN other ELSE pend[w]
              IN  /\ pc'[w] = "lease_last_kind"
                  /\ cur'[w] \in among
                  /\ \A u \in among : cur'[w].scheduled_at <= u.scheduled_at
         /\ last_kind' # last_kind =>
              \E v \in Threads :
                  /\ pc[v] = "lease_last_kind" /\ pc'[v] = "lease_update"
                  /\ last_kind' = Some(cur[v].kind)
         /\ (/\ pc[w] = "lease_update" /\ pc'[w] = "lease_start"
             /\ FairCall(w)
             /\ tasks[cur[w].id].status = "Pending"
             /\ last_dispatch = Some(cur[w].kind)) =>
              \A u \in DOMAIN tasks :
                  (/\ u # cur[w].id
                   /\ tasks[u].tenant_id = cur[w].tenant_id
                   /\ tasks[u].status = "Pending") =>
                      tasks[u].kind = cur[w].kind]_vars

\* C23: create_tenant_with_options calls of one service that carry the same
\* idempotency key all return the same bootstrap bundle, and once a bundle
\* was returned for a key exactly one tenant is persisted for that key.
C23_IdempotentCreateTenant ==
    \A k \in IdempotencyKeys :
        /\ Cardinality(bundles[k]) <= 1
        /\ bundles[k] # {} => Cardinality(made[k]) = 1

\* steps of the auth service, as seen on a transition
RotateWrites(w) == pc[w] = "rotate_update" /\ pc'[w] = "auth_return"
RotateRuns(w, k) ==
    pc[w] \in {"rotate_create", "rotate_update"} /\ arg[w].input = k
\* the active keys that records say were rotated from k
ActiveSuccessors(records, k) ==
    { id \in DOMAIN records :
        records[id].rotated_from = Some(k) /\ ~Inactive(records[id]) }

\* C24: when rotate_api_key(k) writes its result and returns the new key k',
\* the stored record of k is revoked and soft-deleted with rotated_to = k'.id,
\* the stored record of k' has rotated_from = k.id and the label and scopes
\* of k; and once the rotate calls on k have finished, at most one active
\* key was rotated from k.
C24_RotationLinks ==
    [][ /\ \A w \in Threads :
             RotateWrites(w) =>
               LET old == api_keys'[arg[w].input]
                   new == api_keys'[arg'[w].value.id]
               IN  /\ old.revoked
                   /\ old.deleted_at # None
                   /\ old.rotated_to = Some(new.id)
                   /\ new.rotated_from = Some(old.id)
                   /\ new.label = old.label
                   /\ new.scopes = old.scopes
        /\ \A k \in DOMAIN api_keys' :
             (\A w \in Threads : ~RotateRuns(w, k)')
               => Cardinality(ActiveSuccessors(api_keys', k)) <= 1 ]_vars

\* thread w enters the call `call` of the auth service on this transition
Enters(w, call) ==
    /\ pc[w] = "idle"
    /\ pc'[w] # "idle"
    /\ "call" \in DOMAIN arg'[w]
    /\ arg'[w].call = call

\* C25: rotate_api_key on a key that is already revoked or soft-deleted
\* fails with Conflict and creates no key record.
C25_RotateInactiveConflict ==
    [][ \A w \in Threads :
          ( /\ Enters(w, "rotate_api_key")
            /\ arg'[w].input \in DOMAIN api_keys
            /\ Inactive(api_keys[arg'[w].input]) )
          => /\ pc'[w] = "error_return"
             /\ arg'[w].result = "Conflict"
             /\ DOMAIN api_keys' = DOMAIN api_keys ]_vars

\* the record the store has for the prefix of the presented key
Presented(token) == GetApiKeyByPrefix(api_keys, api_keys_by_prefix, token.prefix)
\* the presented secret hashes to the stored hash
SecretMatches(token) ==
    /\ Presented(token) # None
    /\ Presented(token)[1].token_hash = HashSecret(token.secret)

\* C26: authenticate_api_key fails with Unauthorized when the presented
\* prefix is unknown or the presented secret does not hash to the stored
\* hash, and with Forbidden when the credential is valid but the key is
\* revoked or soft-deleted; a failed authentication leaves last_used_at of
\* every record as it was.
C26_AuthenticateErrors ==
    [][ \A w \in Threads :
          ( Enters(w, "authenticate_api_key") /\ arg'[w].input # Malformed )
          => LET token == arg'[w].input
             IN  /\ ~SecretMatches(token)
                      => pc'[w] = "error_return" /\ arg'[w].result = "Unauthorized"
                 /\ SecretMatches(token) /\ Inactive(Presented(token)[1])
                      => pc'[w] = "error_return" /\ arg'[w].result = "Forbidden"
                 /\ pc'[w] = "error_return"
                      => \A id \in DOMAIN api_keys :
                           api_keys'[id].last_used_at = api_keys[id].last_used_at
      ]_vars

\* C30: no two stored ApiKeyRecords share a token_prefix, and the prefix
\* index maps each prefix to the id of the one record that carries it.
C30_PrefixIndex ==
    /\ \A a, b \in DOMAIN api_keys :
         a # b => api_keys[a].token_prefix # api_keys[b].token_prefix
    /\ \A id \in DOMAIN api_keys :
         /\ api_keys[id].id = id
         /\ api_keys[id].token_prefix \in DOMAIN api_keys_by_prefix
         /\ api_keys_by_prefix[api_keys[id].token_prefix] = id
    /\ \A prefix \in DOMAIN api_keys_by_prefix :
         /\ api_keys_by_prefix[prefix] \in DOMAIN api_keys
         /\ api_keys[api_keys_by_prefix[prefix]].token_prefix = prefix

\* a create_api_key call was refused for its prefix while the store holds
\* a rotated key and its successor
C30_Witness ==
    /\ \E w \in Threads :
         /\ pc[w] = "error_return"
         /\ arg[w].call \in {"issue_api_key", "rotate_api_key"}
         /\ arg[w].result = "Conflict"
    /\ \E id \in DOMAIN api_keys :
         api_keys[id].rotated_to # None /\ api_keys[id].rotated_to[1] \in DOMAIN api_keys

\* an operation of the auth service returns Ok on this transition
Returns(w, call) ==
    /\ pc[w] # "auth_return"
    /\ pc'[w] = "auth_return"
    /\ arg'[w].call = call

\* C27: the access token that issue_token_from_context(ctx, ttl) returns
\* is accepted by validate_token, with the principal_id, tenant_id and
\* scopes of ctx, for every scope list and audience of ctx and every ttl;
\* the same holds for the access token refresh_access_token returns, ctx
\* being the context its refresh token was issued from.
C27_TokenRoundTrip ==
    [][ \A w \in Threads :
          ( Returns(w, "issue_token_from_context")
              \/ Returns(w, "refresh_access_token") )
          => LET token == arg'[w].value.token
                 ctx == tokens'[token]
                 back == ValidateToken(token, default_audience, UtcNow)
             IN  /\ back # None
                 /\ back[1].principal_id = ctx.principal_id
                 /\ back[1].tenant_id = ctx.tenant_id
                 /\ back[1].scopes = ctx.scopes ]_vars

\* the token was minted for the use `use`: it is a token the service signed
\* with that use, or such a token with its use changed afterwards
MintedFor(token, use) ==
    \E t \in DOMAIN tokens :
        t.payload.use = use /\ token \in {t, Tamper(t)}

\* C28: validate_token rejects every token minted as a refresh token and
\* refresh_access_token rejects every token minted as an access token, both
\* with Unauthorized, and the rejected call issues no token.
C28_TokenUseSeparation ==
    [][ \A w \in Threads :
          /\ ( Enters(w, "validate_token") /\ MintedFor(arg'[w].input, Refresh) )
               => /\ pc'[w] = "error_return"
                  /\ arg'[w].result = "Unauthorized"
                  /\ tokens' = tokens
          /\ ( Enters(w, "refresh_access_token")
                 /\ MintedFor(arg'[w].input, Access) )
               => /\ pc'[w] = "error_return"
                  /\ arg'[w].result = "Unauthorized"
                  /\ tokens' = tokens ]_vars

\* validate_token has rejected a refresh token of the service that is
\* neither expired nor for another audience
C28_Witness ==
    \E w \in Threads :
        /\ pc[w] = "error_return"
        /\ arg[w].call = "validate_token"
        /\ arg[w].input \in DOMAIN tokens
        /\ arg[w].input.payload.use = Refresh
        /\ ~(FromTsSeconds(arg[w].input.payload.exp) < UtcNow)
        /\ default_audience # None => arg[w].input.payload.aud = default_audience

\* C29: every AuthContext that authenticate_api_key, issue_token_from_context
\* or refresh_access_token returns has expires_at > issued_at, for every ttl
\* override and every token_ttl_seconds of the tenant.
C29_ExpiresAfterIssued ==
    [][ \A w \in Threads :
          /\ Returns(w, "authenticate_api_key")
               => arg'[w].value.expires_at > arg'[w].value.issued_at
          /\ ( Returns(w, "issue_token_from_context")
                 \/ Returns(w, "refresh_access_token") )
               => arg'[w].value.context.expires_at
                    > arg'[w].value.context.issued_at ]_vars

\* sweep_inactive_agents of thread w returns, on a transition
SweepReturns(w) == pc[w] = "sweep_list" /\ pc'[w] = "auth_return"
\* the agents `found` that were due at the time `at`: last_seen absent or
\* older than at - 5 minutes, and not Suspended
Due(found, at) ==
    { a \in DOMAIN found :
        /\ found[a].last_seen = None \/ found[a].last_seen[1] < at - Minutes(5)
        /\ found[a].status # "Suspended" }
\* a sweep that began at `at` over the agents `found` returned `value` and
\* left the store with `held`: it suspended and returned the due agents and
\* changed nothing else
SweptTheDue(found, at, value, held) ==
    LET After(a) == IF a \in Due(found, at)
                    THEN [found[a] EXCEPT !.status = "Suspended"]
                    ELSE found[a]
    IN  /\ { value[i] : i \in DOMAIN value } = { After(a) : a \in Due(found, at) }
        /\ Len(value) = Cardinality(Due(found, at))
        /\ held = [a \in DOMAIN found |-> After(a)]

C36_HeartbeatSurvivesSweep ==
    (\A w \in Threads : pc[w] = "idle") =>
      \A a \in DOMAIN agents :
        (beat[a] # None /\ beat[a][1] >= UtcNow - Minutes(5)) =>
          /\ agents[a].status = "Active"
          /\ agents[a].last_seen = beat[a]

\* C38: create_tenant_with_options is all-or-nothing: when the call ends with
\* an error, the store holds no tenant record that the call made, no API key
\* record for such a tenant, and the idempotency map no bundle of it
C38_CreateTenantAllOrNothing ==
    \A w \in Threads :
      (pc[w] = "error_return" /\ cur[w] # None) =>
        /\ cur[w].id \notin DOMAIN tenants
        /\ \A k \in DOMAIN api_keys : api_keys[k].tenant_id # cur[w].id
        /\ \A key \in DOMAIN tenant_idempotency :
             tenant_idempotency[key].tenant.id # cur[w].id

\* C39: every create_project_with_options(request) that returns Ok returns a
\* project whose tenant_id is request.tenant_id, whatever idempotency key the
\* request carries
C39_ProjectOfRequestedTenant ==
    \A w \in Threads :
      (pc[w] = "auth_return" /\ arg[w].call = "create_project_with_options") =>
        arg[w].value.project.tenant_id = arg[w].input.tenant_id

\* the calls that revoke the key they are given
Revokers == { "revoke_api_key", "soft_delete_api_key", "rotate_api_key" }
\* the record of key k is revoked or deleted and every call that revoked it
\* has returned
RevokedAndReturned(k) ==
    /\ Inactive(api_keys[k])
    /\ \A w \in Threads :
         ~ ( /\ pc[w] = "auth_return"
             /\ arg[w].call \in Revokers
             /\ arg[w].input = k )

\* C35: revocation is permanent: once revoke_api_key, soft_delete_api_key or
\* rotate_api_key on a key has returned, the record of the key stays revoked
\* (so that authenticate_api_key keeps failing with Forbidden), whatever
\* authenticate_api_key calls are in progress
C35_RevocationPermanent ==
    [][\A k \in DOMAIN api_keys :
         RevokedAndReturned(k) => Inactive(api_keys'[k])]_vars

\* the ids of the steps are unique
UniqueStepIds(steps) ==
    \A i, j \in DOMAIN steps : steps[i].id = steps[j].id => i = j
\* step s waits for an outcome of step t
WaitsFor(s, t) ==
    \E d \in s.dependencies :
      /\ d.required_status \in {"Completed", "Failed"}
      /\ d.task_kind = t.task_kind
\* no steps wait for each other in a circle: every non-empty set of steps has
\* a step that waits for none of the set
AcyclicSteps(steps) ==
    \A chosen \in SUBSET DOMAIN steps :
      chosen # {} =>
        \E i \in chosen : \A j \in chosen : ~WaitsFor(steps[i], steps[j])

\* C32: every workflow that register_workflow accepted and stored has a
\* non-empty step list, step ids that are unique within the workflow, and an
\* acyclic dependency chain
C32_WorkflowsWellFormed ==
    \A id \in DOMAIN workflows :
      /\ workflows[id].steps # << >>
      /\ UniqueStepIds(workflows[id].steps)
      /\ AcyclicSteps(workflows[id].steps)

\* the ids in the pending queue that belong to the tenant
QueuedFor(tenant) ==
    { task_queue[i] : i \in { j \in DOMAIN task_queue :
                                /\ task_queue[j] \in DOMAIN tasks
                                /\ tasks[task_queue[j]].tenant_id = tenant } }

C34_InProgressHasLease ==
    (\A w \in Threads : pc[w] = "idle") =>
      \A t \in DOMAIN tasks : tasks[t].status = "InProgress" => HasLease(t)

\* nothing has been leased for the tenant so far, and no call for it other
\* than that of thread w is running
Untouched(tenant, w) ==
    /\ \A t \in DOMAIN tasks :
         tasks[t].tenant_id = tenant =>
           tasks[t].status = "Pending" /\ tasks[t].started_at = None
    /\ \A v \in Threads \ {w} :
         ("tenant_id" \in DOMAIN arg[v]) => arg[v].tenant_id # tenant

\* C37: tenant non-interference of scheduling under FairnessByKind: the task
\* select_task picks for lease_next_task(T) is a task of T, and while nothing
\* has been leased for T it is the task the strategy picks among T's Pending
\* tasks in an engine that has dispatched nothing, whatever was leased for
\* other tenants
C37_TenantNonInterference ==
    [][\A w \in Threads :
         ( /\ pc[w] = "lease_fairness"
           /\ pc'[w] = "lease_last_kind"
           /\ Untouched(arg[w].tenant_id, w) )
         => /\ cur'[w].tenant_id = arg[w].tenant_id
            /\ cur'[w] \in SelectTask(pend[w], "FairnessByKind", task_policies,
                                      None)]_vars

\* C40: backoff affects ordering only: lease_next_task lists every Pending
\* task of the tenant, whether its scheduled_at has come or not, and when the
\* list has one task the call goes on to lease it; so a task that fail_task
\* put back with a backoff is leased again before its scheduled_at
C40_BackoffOrdersOnly ==
    [][\A w \in Threads :
         /\ (pc[w] = "idle" /\ pc'[w] = "lease_select") =>
              \A t \in DOMAIN tasks :
                (tasks[t].tenant_id = arg'[w].tenant_id /\ tasks[t].status = "Pending")
                  => tasks[t] \in pend'[w]
         /\ (pc[w] = "lease_select" /\ pc'[w] # "lease_select"
                                    /\ Cardinality(pend[w]) = 1) =>
              /\ pc'[w] = "lease_update"
              /\ cur'[w] \in pend[w]
         /\ (pc[w] = "lease_update" /\ pc'[w] # "lease_update") =>
              /\ tasks'[cur[w].id].status = "InProgress"
              /\ tasks'[cur[w].id].started_at = Some(now)]_vars

\* a task that fail_task put back with a backoff has been leased again, and
\* its scheduled_at is still to come
C40_Witness ==
    \E w \in Threads :
      /\ pc[w] = "lease_start"
      /\ cur[w].attempts > 0
      /\ cur[w].scheduled_at > now
      /\ tasks[cur[w].id].status = "InProgress"

====
